---------------------------- MODULE Spec2Model ----------------------------
(***************************************************************************)
(* A model of the BlogPosting schema generator: the Extractor              *)
(* (src/extractor.py), the Analyzer (src/analyzer.py), the Schema Builder  *)
(* (src/schema_builder.py) and the generate action of the front end        *)
(* (src/app.py).                                                           *)
(*                                                                         *)
(* Python values are tagged records, so that values of different Python    *)
(* types can be compared: Null, Str(s), Num(n), List(l), Dict(d).  A       *)
(* Python dict is a function from its keys (strings) to values.  Python    *)
(* strings are TLA+ strings; a character is a string of length 1.          *)
(***************************************************************************)
EXTENDS Integers, Sequences, FiniteSets, TLC

VARIABLES
    pc,        \* position of the component under analysis
    args,      \* the arguments of the call in progress (a record)
    ret,       \* what the call returned (a Python value, or NoValue)
    exc,       \* TRUE when the call raised to its caller
    trail      \* the externally visible stages run so far (front end only)

vars == <<pc, args, ret, exc, trail>>

-----------------------------------------------------------------------------
(* Python values *)

Null == [t |-> "null"]
Str(s) == [t |-> "str", s |-> s]
Num(n) == [t |-> "int", n |-> n]
Bool(b) == [t |-> "bool", b |-> b]
List(l) == [t |-> "list", l |-> l]
Dict(d) == [t |-> "dict", d |-> d]

NoValue == [t |-> "novalue"]

EmptyDict == [k \in {} |-> Null]

IsStr(v) == v.t = "str"
IsInt(v) == v.t = "int"
IsList(v) == v.t = "list"
IsDict(v) == v.t = "dict"

\* bool(v)
Truthy(v) ==
    CASE v.t = "null" -> FALSE
      [] v.t = "str" -> v.s # ""
      [] v.t = "int" -> v.n # 0
      [] v.t = "bool" -> v.b
      [] v.t = "list" -> v.l # <<>>
      [] v.t = "dict" -> DOMAIN v.d # {}
      [] OTHER -> FALSE

\* d.get(k): None when the key is missing
Get(d, k) == IF k \in DOMAIN d THEN d[k] ELSE Null

\* d.get(k, default)
GetOr(d, k, default) == IF k \in DOMAIN d THEN d[k] ELSE default

\* d[k] = v
Put(d, k, v) == [x \in (DOMAIN d) \cup {k} |-> IF x = k THEN v ELSE d[x]]

\* d.update(e)
Update(d, e) == [x \in (DOMAIN d) \cup (DOMAIN e) |-> IF x \in DOMAIN e THEN e[x] ELSE d[x]]

\* a dict literal of one, two, ... entries
D1(k1, v1) == Put(EmptyDict, k1, v1)
D2(k1, v1, k2, v2) == Put(D1(k1, v1), k2, v2)
D3(k1, v1, k2, v2, k3, v3) == Put(D2(k1, v1, k2, v2), k3, v3)
D4(k1, v1, k2, v2, k3, v3, k4, v4) == Put(D3(k1, v1, k2, v2, k3, v3), k4, v4)

\* if cond: d[k] = v
PutIf(cond, d, k, v) == IF cond THEN Put(d, k, v) ELSE d

\* if v: d[k] = v
PutTruthy(d, k, v) == IF Truthy(v) THEN Put(d, k, v) ELSE d

\* if cond: d[k] = e.get(k, d[k])
PutOverIf(cond, d, k, e) == IF cond THEN Put(d, k, GetOr(e, k, d[k])) ELSE d

-----------------------------------------------------------------------------
(* Python strings *)

MinOf(S) == CHOOSE i \in S : \A j \in S : i <= j
MaxOf(S) == CHOOSE i \in S : \A j \in S : i >= j

Chr(s, i) == SubSeq(s, i, i)

\* s[:n]
Take(s, n) == IF Len(s) <= n THEN s ELSE SubSeq(s, 1, n)

\* s[n:] (n counted from 0)
Drop(s, n) == IF n >= Len(s) THEN SubSeq(s, 1, 0) ELSE SubSeq(s, n + 1, Len(s))

\* s[-n:]
Last(s, n) == IF Len(s) <= n THEN s ELSE SubSeq(s, Len(s) - n + 1, Len(s))


StartsWith(s, p) == Len(s) >= Len(p) /\ SubSeq(s, 1, Len(p)) = p
EndsWith(s, p) == Len(s) >= Len(p) /\ SubSeq(s, Len(s) - Len(p) + 1, Len(s)) = p

\* s.find(p) + 1: the first position of p in s, 0 when there is none
Find(s, p) ==
    LET I == {i \in 1..(Len(s) - Len(p) + 1) : SubSeq(s, i, i + Len(p) - 1) = p}
    IN IF I = {} THEN 0 ELSE MinOf(I)

\* p in s
Contains(s, p) == Find(s, p) # 0

\* s.replace(old, new), old non-empty
RECURSIVE Replace(_, _, _)
Replace(s, old, new) ==
    LET i == Find(s, old)
    IN IF i = 0 THEN s
       ELSE SubSeq(s, 1, i - 1) \o new \o Replace(Drop(s, i - 1 + Len(old)), old, new)

\* s.split(sep), sep non-empty: a sequence of strings
RECURSIVE Split(_, _)
Split(s, sep) ==
    LET i == Find(s, sep)
    IN IF i = 0 THEN <<s>>
       ELSE <<SubSeq(s, 1, i - 1)>> \o Split(Drop(s, i - 1 + Len(sep)), sep)

Lowers == "abcdefghijklmnopqrstuvwxyz"
Uppers == "ABCDEFGHIJKLMNOPQRSTUVWXYZ"
Whitespace == {" ", "\n", "\t"}

IsLower(c) == Contains(Lowers, c)
IsUpper(c) == Contains(Uppers, c)
IsAlpha(c) == IsLower(c) \/ IsUpper(c)
IsSpace(c) == c \in Whitespace

UpperChr(c) == IF IsLower(c) THEN Chr(Uppers, Find(Lowers, c)) ELSE c
LowerChr(c) == IF IsUpper(c) THEN Chr(Lowers, Find(Uppers, c)) ELSE c

\* the concatenation of a sequence of strings
RECURSIVE Concat(_)
Concat(seq) ==
    IF seq = <<>> THEN ""
    ELSE IF Len(seq) = 1 THEN seq[1]
    ELSE Concat(SubSeq(seq, 1, Len(seq) \div 2))
            \o Concat(SubSeq(seq, Len(seq) \div 2 + 1, Len(seq)))

\* c * n: the string c repeated n times
Rep(c, n) == Concat([i \in 1..n |-> c])

\* the positions lo..hi at which a sequence of truth values is true, in
\* rising order
RECURSIVE IndicesIn(_, _, _)
IndicesIn(mask, lo, hi) ==
    IF lo > hi THEN <<>>
    ELSE IF lo = hi THEN (IF mask[lo] THEN <<lo>> ELSE <<>>)
    ELSE IndicesIn(mask, lo, (lo + hi) \div 2) \o IndicesIn(mask, (lo + hi) \div 2 + 1, hi)

Indices(mask) == IndicesIn(mask, 1, Len(mask))

\* s.lower()
Lower(s) == Concat([i \in 1..Len(s) |-> LowerChr(Chr(s, i))])

\* s.title(): a cased character is upper-cased after an uncased one, and
\* lower-cased after a cased one
Title(s) ==
    Concat([i \in 1..Len(s) |->
              IF i > 1 /\ IsAlpha(Chr(s, i - 1)) THEN LowerChr(Chr(s, i))
              ELSE UpperChr(Chr(s, i))])

\* s.strip()
RECURSIVE LStrip(_)
LStrip(s) == IF s # "" /\ IsSpace(Chr(s, 1)) THEN LStrip(Drop(s, 1)) ELSE s

RECURSIVE RStrip(_)
RStrip(s) == IF s # "" /\ IsSpace(Chr(s, Len(s))) THEN RStrip(Take(s, Len(s) - 1)) ELSE s

Strip(s) == RStrip(LStrip(s))

\* s.split(): the maximal runs of non-whitespace characters
SplitWs(s) ==
    LET starts == Indices([i \in 1..Len(s) |->
                                ~IsSpace(Chr(s, i)) /\ (i = 1 \/ IsSpace(Chr(s, i - 1)))])
        End(i) == MinOf({j \in i..Len(s) : j = Len(s) \/ IsSpace(Chr(s, j + 1))})
    IN [n \in DOMAIN starts |-> SubSeq(s, starts[n], End(starts[n]))]

\* [x for x in seq if x]
RECURSIVE NonEmpty(_)
NonEmpty(seq) ==
    IF seq = <<>> THEN <<>>
    ELSE (IF Head(seq) = "" THEN <<>> ELSE <<Head(seq)>>) \o NonEmpty(Tail(seq))

-----------------------------------------------------------------------------
(* urllib.parse.urlparse, for URLs without parameters *)

Digits == "0123456789"
IsDigit(c) == Contains(Digits, c)
IsSchemeChr(c) == IsAlpha(c) \/ IsDigit(c) \/ c \in {"+", "-", "."}

\* the first position in s of one of the characters of cs, Len(s) + 1 when
\* there is none
FirstOf(s, cs) ==
    LET I == {i \in 1..Len(s) : Chr(s, i) \in cs}
    IN IF I = {} THEN Len(s) + 1 ELSE MinOf(I)

\* urlparse raises ValueError for a host with one bracket only
UrlparseRaises(url) ==
    LET i == Find(url, "//")
        after == IF i = 0 THEN "" ELSE Drop(url, i + 1)
        netloc == SubSeq(after, 1, FirstOf(after, {"/", "?", "#"}) - 1)
    IN Contains(netloc, "[") # Contains(netloc, "]")

\* the end of the scheme of url, the position of its colon; 0 when url
\* has no scheme
SchemeEnd(url) ==
    LET i == Find(url, ":")
    IN IF /\ i > 1
          /\ IsAlpha(Chr(url, 1))
          /\ \A j \in 1..(i - 1) : IsSchemeChr(Chr(url, j))
       THEN i ELSE 0

\* the path of what follows the host
PathOf(rest) == SubSeq(rest, 1, FirstOf(rest, {"?", "#"}) - 1)

\* the host and the path of what follows "//"
NetlocAndPath(scheme, after, delim) ==
    [scheme |-> scheme,
     netloc |-> SubSeq(after, 1, delim - 1),
     path |-> PathOf(Drop(after, delim - 1))]

\* the result for the scheme and what follows its colon
SplitNetloc(scheme, rest) ==
    IF StartsWith(rest, "//")
    THEN NetlocAndPath(scheme, Drop(rest, 2), FirstOf(Drop(rest, 2), {"/", "?", "#"}))
    ELSE [scheme |-> scheme, netloc |-> "", path |-> PathOf(rest)]

SplitScheme(url, i) ==
    SplitNetloc(IF i > 0 THEN Lower(SubSeq(url, 1, i - 1)) ELSE "", Drop(url, i))

urlparse(url) == SplitScheme(url, SchemeEnd(url))

-----------------------------------------------------------------------------
(* src/schema_builder.py: class SchemaBuilder *)

schema_context == "https://schema.org"

HeadlineLimit == 110
DescriptionLimit == 160
ArticleBodyLimit == 5000
KeywordLimit == 10
AnalyzedKeywordLimit == 15
MergedKeywordLimit == 20
AiKeywordLimit == 25

\* datetime.now(timezone.utc).isoformat() and datetime.now().year
NowIso == "2026-11-04T12:00:00+00:00"
NowYear == 2026

\* v[:n] for the values that can be sliced
CanSlice(v) == IsStr(v) \/ IsList(v)
Slice(v, n) == IF IsStr(v) THEN Str(Take(v.s, n)) ELSE List(Take(v.l, n))

\* v[0] for a non-empty string or list
Index0(v) == IF IsStr(v) THEN Str(Chr(v.s, 1)) ELSE v.l[1]

\* len(v) is defined
HasLen(v) == IsStr(v) \/ IsList(v) \/ IsDict(v)

\* f"{v}" for the strings, the integers and None
Format(v) ==
    IF IsStr(v) THEN v.s
    ELSE IF IsInt(v) THEN ToString(v.n)
    ELSE IF v = Null THEN "None" ELSE "?"

\* "k in c": raises for a container that is no mapping, sequence or string
InRaises(c) == ~(IsDict(c) \/ IsList(c) \/ IsStr(c))

\* dateutil.parser.parse on the date strings of the model: the parsed
\* date in ISO form and whether it carries a zone; ok = FALSE: ParserError
DateutilParse(s) ==
    CASE s = "2024-01-15" -> [ok |-> TRUE, iso |-> "2024-01-15T00:00:00", tz |-> ""]
      [] s = "January 15, 2024" -> [ok |-> TRUE, iso |-> "2024-01-15T00:00:00", tz |-> ""]
      [] s = "2024-01-15T10:30:00" -> [ok |-> TRUE, iso |-> "2024-01-15T10:30:00", tz |-> ""]
      [] s = "2024-01-15T10:30:00-05:00" -> [ok |-> TRUE, iso |-> "2024-01-15T10:30:00", tz |-> "-05:00"]
      [] s = "2024-01-15 10:30:00 +0200" -> [ok |-> TRUE, iso |-> "2024-01-15T10:30:00", tz |-> "+02:00"]
      [] OTHER -> [ok |-> FALSE, iso |-> "", tz |-> ""]

\* _format_date: every exception inside it is caught
_format_date(date_str) ==
    IF ~IsStr(date_str) THEN NowIso
    ELSE IF /\ Contains(date_str.s, "T")
            /\ (Contains(date_str.s, "Z") \/ Contains(Last(date_str.s, 6), "+"))
    THEN date_str.s
    ELSE LET parsed == DateutilParse(date_str.s)
         IN IF ~parsed.ok THEN NowIso
            ELSE parsed.iso \o (IF parsed.tz = "" THEN "+00:00" ELSE parsed.tz)

\* _add_core_properties raises when a truthy title or description cannot
\* be sliced
CoreRaises(content_data) ==
    \/ Truthy(Get(content_data, "title")) /\ ~CanSlice(content_data["title"])
    \/ Truthy(Get(content_data, "description")) /\ ~CanSlice(content_data["description"])

_add_core_properties(content_data) ==
    LET p1 == IF Truthy(Get(content_data, "title"))
              THEN D2("headline", Slice(content_data["title"], HeadlineLimit),
                      "name", content_data["title"])
              ELSE EmptyDict
        p2 == PutIf(Truthy(Get(content_data, "url")), p1, "url", content_data["url"])
        dated == Truthy(Get(content_data, "publish_date"))
        p3 == PutIf(dated,
                    PutIf(dated, p2, "datePublished",
                          Str(_format_date(content_data["publish_date"]))),
                    "dateModified", Str(_format_date(content_data["publish_date"])))
        p4 == PutIf(Truthy(Get(content_data, "description")), p3,
                    "description", Slice(content_data["description"], DescriptionLimit))
        p5 == Put(p4, "inLanguage", Str("en-US"))
    IN PutIf(Truthy(Get(content_data, "word_count")), p5,
             "wordCount", content_data["word_count"])

\* _build_author_schema raises on "'author' in site_config" for a truthy
\* site_config that is no container
AuthorRaises(content_data, site_config) ==
    LET author_name == GetOr(content_data, "author", Str("Unknown Author"))
    IN /\ Truthy(author_name)
       /\ author_name # Str("Unknown Author")
       /\ Truthy(site_config)
       /\ InRaises(site_config)

\* the faulty variant: the placeholder name is an author like any other
AuthorWithPlaceholder(content_data, site_config) ==
    LET author_name == GetOr(content_data, "author", Str("Unknown Author"))
    IN IF Truthy(author_name)
       THEN Dict(D2("@type", Str("Person"), "name", author_name)) ELSE Null

\* _build_author_schema: Null when there is no author
_build_author_schema(content_data, site_config) ==
    LET author_name == GetOr(content_data, "author", Str("Unknown Author"))
        base == D2("@type", Str("Person"), "name", author_name)
        author_config == IF Truthy(site_config) /\ IsDict(site_config)
                            /\ "author" \in DOMAIN site_config.d
                         THEN site_config.d["author"] ELSE Null
        cfg == IF IsDict(author_config) THEN author_config.d ELSE EmptyDict
        a1 == PutIf(Truthy(Get(cfg, "url")), base, "url", cfg["url"])
        a2 == PutIf(Truthy(Get(cfg, "sameAs")), a1, "sameAs", cfg["sameAs"])
        a3 == PutIf(Truthy(Get(cfg, "jobTitle")), a2, "jobTitle", cfg["jobTitle"])
        a4 == PutIf(Truthy(Get(cfg, "worksFor")), a3, "worksFor",
                    Dict(D2("@type", Str("Organization"), "name", cfg["worksFor"])))
    IN IF Truthy(author_name) /\ author_name # Str("Unknown Author")
       THEN Dict(a4) ELSE Null

\* _build_publisher_schema raises in urlparse for a truthy url that is no
\* string, and on "'publisher' in site_config" as _build_author_schema does
PublisherRaises(site_config, url) ==
    \/ Truthy(url) /\ ~IsStr(url)
    \/ Truthy(site_config) /\ InRaises(site_config)

\* domain.replace('www.', '').title() if domain else fallback
DomainName(domain, fallback) ==
    IF domain # "" THEN Title(Replace(domain, "www.", "")) ELSE fallback

_build_publisher_schema(site_config, url) ==
    LET domain == IF Truthy(url) THEN urlparse(url.s).netloc ELSE "example.com"
        base == D2("@type", Str("Organization"),
                   "name", Str(DomainName(domain, "Blog Publisher")))
        pub_config == IF Truthy(site_config) /\ IsDict(site_config)
                         /\ "publisher" \in DOMAIN site_config.d
                      THEN site_config.d["publisher"] ELSE Null
        cfg == IF IsDict(pub_config) THEN pub_config.d ELSE EmptyDict
        p1 == PutOverIf(IsDict(pub_config), base, "name", cfg)
        p2 == PutIf(Truthy(Get(cfg, "url")), p1, "url", cfg["url"])
        p3 == PutIf(Truthy(Get(cfg, "logo")), p2, "logo",
                    Dict(D4("@type", Str("ImageObject"), "url", cfg["logo"],
                            "width", GetOr(cfg, "logo_width", Num(600)),
                            "height", GetOr(cfg, "logo_height", Num(60)))))
    IN PutIf(Truthy(Get(cfg, "sameAs")), p3, "sameAs", cfg["sameAs"])

\* _build_image_schema: Null when there is no image
_build_image_schema(content_data) ==
    LET image_url == Get(content_data, "image_url")
        base == D4("@type", Str("ImageObject"), "url", image_url,
                   "width", Num(1200), "height", Num(630))
    IN IF ~Truthy(image_url) THEN Null
       ELSE IF Truthy(Get(content_data, "title"))
       THEN Dict(Put(base, "caption", content_data["title"]))
       ELSE Dict(base)

\* _add_content_properties raises on len(content) of a value without a
\* length and on keywords[0] of a value that cannot be indexed
ContentRaises(content_data) ==
    \/ Truthy(Get(content_data, "content")) /\ ~HasLen(content_data["content"])
    \/ Truthy(Get(content_data, "keywords")) /\ ~CanSlice(content_data["keywords"])

_add_content_properties(schema, content_data) ==
    LET content == Get(content_data, "content")
        body == IF IsStr(content) /\ Len(content.s) > ArticleBodyLimit
                THEN Str(Take(content.s, ArticleBodyLimit) \o "...")
                ELSE content
        s1 == PutIf(Truthy(content), schema, "articleBody", body)
        keywords == Get(content_data, "keywords")
        s2 == PutIf(Truthy(keywords),
                    PutIf(Truthy(keywords), s1, "articleSection", Index0(keywords)),
                    "keywords", Slice(keywords, KeywordLimit))
    IN PutIf(Truthy(Get(content_data, "reading_time")), s2, "timeRequired",
             Str("PT" \o Format(content_data["reading_time"]) \o "M"))

Range(seq) == {seq[i] : i \in DOMAIN seq}

\* list(set(seq)): the distinct elements of seq in the iteration order of the
\* set, which is the order ord gives (ord lists every hashable value once)
ListOfSet(seq, ord) ==
    LET In(x) == x \in Range(seq)
    IN SelectSeq(ord, In)

Hashable(v) == ~(IsList(v) \/ IsDict(v))

\* one step of _enhance_with_analysis: [ok, schema]; ok = FALSE when the
\* step raised, which ends _enhance_with_analysis with the schema as the
\* earlier steps left it
Step(ok, schema) == [ok |-> ok, schema |-> schema]

\* the steps take the outcome of the step before them and pass it on when
\* that step raised

EnhanceMetrics(step, analysis_data) ==
    IF ~step.ok \/ "content_metrics" \notin DOMAIN analysis_data THEN step
    ELSE LET metrics == analysis_data["content_metrics"]
         IN IF ~IsDict(metrics) THEN Step(FALSE, step.schema)
            ELSE Step(TRUE, PutIf(Truthy(Get(metrics.d, "word_count")), step.schema,
                                  "wordCount", metrics.d["word_count"]))

EnhanceKeywords(step, analysis_data, ord) ==
    IF ~step.ok \/ "keyword_analysis" \notin DOMAIN analysis_data THEN step
    ELSE LET keyword_data == analysis_data["keyword_analysis"]
         IN IF ~IsDict(keyword_data) THEN Step(FALSE, step.schema)
            ELSE LET top_keywords == Get(keyword_data.d, "top_keywords")
                     first == Take(top_keywords.l, AnalyzedKeywordLimit)
                     analyzed_keywords == [i \in DOMAIN first |-> first[i].d["word"]]
                     existing_keywords == GetOr(step.schema, "keywords", List(<<>>))
                     all == existing_keywords.l \o analyzed_keywords
                 IN IF ~Truthy(top_keywords) THEN step
                    ELSE IF \/ ~IsList(top_keywords)
                            \/ \E i \in DOMAIN first :
                                  ~IsDict(first[i]) \/ "word" \notin DOMAIN first[i].d
                            \/ ~IsList(existing_keywords)
                    THEN Step(FALSE, step.schema)
                    ELSE IF \E i \in DOMAIN all : ~Hashable(all[i])
                    THEN Step(FALSE, step.schema)
                    ELSE Step(TRUE, Put(step.schema, "keywords",
                                        List(Take(ListOfSet(all, ord), MergedKeywordLimit))))

EnhanceReadability(step, analysis_data) ==
    IF ~step.ok \/ "readability" \notin DOMAIN analysis_data THEN step
    ELSE LET readability == analysis_data["readability"]
         IN IF ~IsDict(readability) THEN Step(FALSE, step.schema)
            ELSE Step(TRUE, Put(step.schema, "about",
                     Dict(D2("@type", Str("Thing"),
                             "name", Str("Content with "
                                 \o Format(GetOr(readability.d, "reading_level", Str("Standard")))
                                 \o " reading level")))))

EnhanceAi(step, analysis_data, ord) ==
    IF \/ ~step.ok
       \/ ~("ai_insights" \in DOMAIN analysis_data /\ IsDict(analysis_data["ai_insights"]))
    THEN step
    ELSE LET ai_insights == analysis_data["ai_insights"].d
             main_topics == Get(ai_insights, "main_topics")
             existing_keywords == GetOr(step.schema, "keywords", List(<<>>))
             ai_keywords == [i \in DOMAIN main_topics.l |-> Str(Lower(main_topics.l[i].s))]
             all == existing_keywords.l \o ai_keywords
             topicsRaise == \/ ~IsList(main_topics)
                            \/ \E i \in DOMAIN main_topics.l : ~IsStr(main_topics.l[i])
                            \/ ~IsList(existing_keywords)
             s1 == PutIf(Truthy(main_topics), step.schema, "keywords",
                         List(Take(ListOfSet(all, ord), AiKeywordLimit)))
         IN IF Truthy(main_topics) /\ topicsRaise THEN Step(FALSE, step.schema)
            ELSE IF Truthy(main_topics) /\ \E i \in DOMAIN all : ~Hashable(all[i])
            THEN Step(FALSE, step.schema)
            ELSE Step(TRUE, PutIf(Truthy(Get(ai_insights, "target_audience")), s1, "audience",
                                  Dict(D2("@type", Str("Audience"),
                                          "audienceType", ai_insights["target_audience"]))))

\* _enhance_with_analysis never raises: its body is one try block
_enhance_with_analysis(schema, analysis_data, ord) ==
    EnhanceAi(EnhanceReadability(EnhanceKeywords(EnhanceMetrics(Step(TRUE, schema),
                                                                analysis_data),
                                                 analysis_data, ord),
                                 analysis_data),
              analysis_data, ord).schema

\* _add_technical_metadata raises in urlparse for a truthy url that is no string
TechnicalRaises(content_data) ==
    Truthy(Get(content_data, "url")) /\ ~IsStr(content_data["url"])

_add_technical_metadata(schema, content_data) ==
    LET url == Get(content_data, "url")
        s1 == Put(schema, "encodingFormat", Str("text/html"))
        s2 == PutIf(Truthy(url), s1, "contentLocation",
                    Dict(D2("@type", Str("Place"), "url", url)))
        s3 == Put(s2, "accessibilityFeature",
                  List(<<Str("readingOrder"), Str("structuralNavigation")>>))
        s4 == Put(s3, "contentRating", Str("General"))
        s5 == PutIf(Truthy(url), s4, "copyrightHolder",
                    Dict(D2("@type", Str("Organization"),
                            "name", Str(DomainName(urlparse(url.s).netloc, "Publisher")))))
    IN PutIf(Truthy(url), s5, "copyrightYear", Num(NowYear))

\* "/" + "/".join(parts[:i])
RECURSIVE PathPrefix(_, _)
PathPrefix(parts, i) == IF i = 0 THEN "" ELSE PathPrefix(parts, i - 1) \o "/" \o parts[i]

ListItem(position, name, item) ==
    Dict(D4("@type", Str("ListItem"), "position", Num(position), "name", name, "item", item))

\* the faulty variant: the path elements are used as names as they are
ItemsWithRawNames(base_url, path_parts) ==
    <<ListItem(1, Str("Home"), Str(base_url))>>
        \o [i \in 1..(Len(path_parts) - 1) |->
              ListItem(i + 1, Str(path_parts[i]), Str(base_url \o PathPrefix(path_parts, i)))]

\* _build_breadcrumb_schema: Null when there is no breadcrumb; an exception
\* (urlparse of a url that is no string) is caught and gives Null too
\* the items of the home page and of the path elements before the last
BreadcrumbItems(base_url, path_parts) ==
    <<ListItem(1, Str("Home"), Str(base_url))>>
        \o [i \in 1..(Len(path_parts) - 1) |->
              ListItem(i + 1,
                       Str(Title(Replace(Replace(path_parts[i], "-", " "), "_", " "))),
                       Str(base_url \o PathPrefix(path_parts, i)))]

\* the list with the item of the current page appended
WithCurrentPage(breadcrumb_items, name, url) ==
    Append(breadcrumb_items, ListItem(Len(breadcrumb_items) + 1, name, url))

BreadcrumbList(content_data, url, base_url, path_parts) ==
    IF Len(path_parts) < 2 THEN Null
    ELSE Dict(D2("@type", Str("BreadcrumbList"),
                 "itemListElement",
                 List(WithCurrentPage(BreadcrumbItems(base_url, path_parts),
                                      GetOr(content_data, "title", Str("Current Page")),
                                      url))))

BreadcrumbOf(content_data, url, parsed_url) ==
    BreadcrumbList(content_data, url,
                   parsed_url.scheme \o "://" \o parsed_url.netloc,
                   NonEmpty(Split(parsed_url.path, "/")))

_build_breadcrumb_schema(content_data) ==
    LET url == GetOr(content_data, "url", Str(""))
    IN IF ~Truthy(url) \/ ~IsStr(url) THEN Null
       ELSE IF UrlparseRaises(url.s) THEN Null
       ELSE BreadcrumbOf(content_data, url, urlparse(url.s))

\* the list comprehension of _validate_and_clean_schema
CleanList(l) ==
    LET Keep(item) == item # Null /\ item # Str("")
    IN SelectSeq(l, Keep)

RECURSIVE _validate_and_clean_schema(_)
_validate_and_clean_schema(schema) ==
    LET Considered(k) == schema[k] # Null /\ schema[k] # Str("") /\ schema[k] # List(<<>>)
        Cleaned(k) ==
            IF IsDict(schema[k]) THEN Dict(_validate_and_clean_schema(schema[k].d))
            ELSE IF IsList(schema[k]) THEN List(CleanList(schema[k].l))
            ELSE schema[k]
        Kept(k) == /\ Considered(k)
                   /\ (IsDict(schema[k]) \/ IsList(schema[k])) => Truthy(Cleaned(k))
    IN [k \in {x \in DOMAIN schema : Kept(x)} |-> Cleaned(k)]

_minimal_schema(content_data) ==
    LET m == D4("@context", Str(schema_context),
                "@type", Str("BlogPosting"),
                "headline", GetOr(content_data, "title", Str("Blog Post")),
                "url", GetOr(content_data, "url", Str("")))
    IN Put(Put(Put(m, "datePublished", Str(NowIso)),
               "author", Dict(D2("@type", Str("Person"),
                                 "name", GetOr(content_data, "author", Str("Unknown Author"))))),
           "publisher", Dict(D2("@type", Str("Organization"), "name", Str("Blog Publisher"))))

\* a step of the try block of build_blogposting_schema raises
RichRaises(content_data, site_config) ==
    \/ CoreRaises(content_data)
    \/ AuthorRaises(content_data, site_config)
    \/ PublisherRaises(site_config, GetOr(content_data, "url", Str("")))
    \/ ContentRaises(content_data)
    \/ TechnicalRaises(content_data)

\* the try block of build_blogposting_schema, when no step raises
RichSchema(content_data, analysis_data, site_config, ord) ==
    LET url == GetOr(content_data, "url", Str(""))
        s0 == D4("@context", Str(schema_context),
                 "@type", Str("BlogPosting"),
                 "@id", url,
                 "mainEntityOfPage", Dict(D2("@type", Str("WebPage"), "@id", url)))
        s1 == Update(s0, _add_core_properties(content_data))
        s2 == PutTruthy(s1, "author", _build_author_schema(content_data, site_config))
        s3 == PutTruthy(s2, "publisher", Dict(_build_publisher_schema(site_config, url)))
        s4 == PutTruthy(s3, "image", _build_image_schema(content_data))
        s5 == _add_content_properties(s4, content_data)
        s6 == IF Truthy(analysis_data)
              THEN _enhance_with_analysis(s5, analysis_data.d, ord) ELSE s5
        s7 == _add_technical_metadata(s6, content_data)
    IN _validate_and_clean_schema(
           PutTruthy(s7, "breadcrumb", _build_breadcrumb_schema(content_data)))

\* the faulty variant: no except clause, an exception of the try block
\* reaches the caller
BuildWithoutFallback(content_data, analysis_data, site_config, ord) ==
    IF ~IsDict(content_data) \/ RichRaises(content_data.d, site_config)
    THEN [raised |-> TRUE, schema |-> NoValue]
    ELSE [raised |-> FALSE,
          schema |-> Dict(RichSchema(content_data.d, analysis_data, site_config, ord))]

\* build_blogposting_schema: the schema it returns, or raised = TRUE when an
\* exception reaches the caller.  The except clause catches every exception
\* of the try block and returns _minimal_schema(content_data), which raises
\* itself only when content_data has no get (is no mapping)
build_blogposting_schema(content_data, analysis_data, site_config, ord) ==
    IF ~IsDict(content_data) THEN [raised |-> TRUE, schema |-> NoValue]
    ELSE IF RichRaises(content_data.d, site_config)
    THEN [raised |-> FALSE, schema |-> Dict(_minimal_schema(content_data.d))]
    ELSE [raised |-> FALSE,
          schema |-> Dict(RichSchema(content_data.d, analysis_data, site_config, ord))]

\* datetime.fromisoformat (Python 3.11) on the extended format
\* YYYY-MM-DD[*HH[:MM[:SS[.f]]][+HH[:MM]]]: TRUE when the string is accepted,
\* FALSE when ValueError is raised
AllDigits(s) == \A i \in 1..Len(s) : IsDigit(Chr(s, i))

RECURSIVE NatOf(_)
NatOf(s) == IF s = "" THEN 0
            ELSE 10 * NatOf(SubSeq(s, 1, Len(s) - 1)) + Find(Digits, Chr(s, Len(s))) - 1

\* the number at the positions i..j of s is below limit
FieldBelow(s, i, j, limit) == AllDigits(SubSeq(s, i, j)) /\ NatOf(SubSeq(s, i, j)) < limit

DaysIn(year, month) ==
    IF month = 2
    THEN (IF year % 4 = 0 /\ (year % 100 # 0 \/ year % 400 = 0) THEN 29 ELSE 28)
    ELSE IF month \in {4, 6, 9, 11} THEN 30 ELSE 31

IsIsoDate(d) ==
    /\ Len(d) = 10
    /\ Chr(d, 5) = "-" /\ Chr(d, 8) = "-"
    /\ AllDigits(SubSeq(d, 1, 4)) /\ NatOf(SubSeq(d, 1, 4)) >= 1
    /\ FieldBelow(d, 6, 7, 13) /\ NatOf(SubSeq(d, 6, 7)) >= 1
    /\ FieldBelow(d, 9, 10, DaysIn(NatOf(SubSeq(d, 1, 4)), NatOf(SubSeq(d, 6, 7))) + 1)
    /\ NatOf(SubSeq(d, 9, 10)) >= 1

\* HH, HH:MM, HH:MM:SS or HH:MM:SS.f
IsIsoClock(t) ==
    /\ Len(t) \in {2, 5, 8} \/ (Len(t) > 9 /\ Chr(t, 9) \in {".", ","}
                                            /\ AllDigits(Drop(t, 9)))
    /\ FieldBelow(t, 1, 2, 24)
    /\ Len(t) >= 5 => (Chr(t, 3) = ":" /\ FieldBelow(t, 4, 5, 60))
    /\ Len(t) >= 8 => (Chr(t, 6) = ":" /\ FieldBelow(t, 7, 8, 60))

\* the offset after the sign: HH, HHMM, HH:MM or HH:MM:SS
IsIsoOffset(o) ==
    \/ IsIsoClock(o) /\ Len(o) <= 8
    \/ Len(o) = 4 /\ FieldBelow(o, 1, 2, 24) /\ FieldBelow(o, 3, 4, 60)

\* the position of the sign of the offset in a time, Len(t) + 1 without
ZoneAt(t) == FirstOf(t, {"+", "-"})

IsIsoTime(t) ==
    IF EndsWith(t, "Z") THEN IsIsoClock(SubSeq(t, 1, Len(t) - 1))
    ELSE /\ IsIsoClock(SubSeq(t, 1, ZoneAt(t) - 1))
         /\ ZoneAt(t) <= Len(t) => IsIsoOffset(Drop(t, ZoneAt(t)))

IsIsoformat(s) ==
    /\ IsIsoDate(Take(s, 10))
    /\ Len(s) > 10 => (Len(s) >= 13 /\ IsIsoTime(Drop(s, 11)))

\* the timestamp carries a zone (an aware datetime)
HasZone(s) ==
    /\ IsIsoformat(s)
    /\ Len(s) > 10
    /\ EndsWith(s, "Z") \/ ZoneAt(Drop(s, 11)) <= Len(Drop(s, 11))

\* validate_schema raises AttributeError when a truthy url has no
\* startswith or datePublished has no replace; only ValueError is caught
ValidateRaises(schema) ==
    \/ Truthy(Get(schema, "url")) /\ ~IsStr(schema["url"])
    \/ "datePublished" \in DOMAIN schema /\ ~IsStr(schema["datePublished"])

required_fields == <<"@context", "@type", "headline", "author", "publisher">>

\* the checks of validate_schema that make the schema invalid, in order
MissingErrors(schema) ==
    LET Missing(field) == field \notin DOMAIN schema
        missing == SelectSeq(required_fields, Missing)
    IN [i \in DOMAIN missing |-> Str("Missing required field: " \o missing[i])]

TypeErrors(schema) ==
    IF Get(schema, "@type") # Str("BlogPosting")
    THEN <<Str("Schema type should be 'BlogPosting'")>> ELSE <<>>

DateErrors(schema) ==
    IF "datePublished" \in DOMAIN schema
       /\ ~IsIsoformat(Replace(schema["datePublished"].s, "Z", "+00:00"))
    THEN <<Str("datePublished should be in ISO 8601 format")>> ELSE <<>>

UrlWarnings(schema) ==
    IF ~Truthy(Get(schema, "url"))
       \/ ~(StartsWith(schema["url"].s, "http://") \/ StartsWith(schema["url"].s, "https://"))
    THEN <<Str("URL should be a valid absolute URL")>> ELSE <<>>

Suggestions(schema) ==
    (IF "image" \notin DOMAIN schema
     THEN <<Str("Consider adding an image for better SEO")>> ELSE <<>>)
    \o (IF "keywords" \notin DOMAIN schema
        THEN <<Str("Adding keywords can improve content discoverability")>> ELSE <<>>)

\* the result of validate_schema when it does not raise
ValidationResults(errors, warnings, suggestions) ==
    Dict([is_valid |-> Bool(errors = <<>>), errors |-> List(errors),
          warnings |-> List(warnings), suggestions |-> List(suggestions)])

\* validate_schema: [raised, results]
validate_schema(schema) ==
    IF ValidateRaises(schema) THEN [raised |-> TRUE, results |-> Null]
    ELSE [raised |-> FALSE,
          results |-> ValidationResults(
              MissingErrors(schema) \o TypeErrors(schema) \o DateErrors(schema),
              UrlWarnings(schema), Suggestions(schema))]

-----------------------------------------------------------------------------
(* The inputs of the Schema Builder *)

\* how far past a length limit the strings of the model go
MaxOver == 1

\* the dict holding the entries of f whose value is not NoValue
MkDict(f) == [k \in {x \in DOMAIN f : f[x] # NoValue} |-> f[k]]

Titles ==
    {NoValue, Str(""), Str("Hello World"), Num(7)}
        \cup {Str(Rep("a", HeadlineLimit + k)) : k \in 0..MaxOver}

Descriptions ==
    {NoValue, Str(""), Str("A short summary.")}
        \cup {Str(Rep("d", DescriptionLimit + k)) : k \in 1..MaxOver}

PageUrls ==
    {NoValue, Str(""), Num(5),
     Str("https://www.example.com/blog/my-post"),
     Str("https://example.com/"),
     Str("https://blog.example.org/a_b/c-d/e")}

\* the remaining fields of content_data, taken together
Rests ==
    {[author |-> NoValue, keywords |-> NoValue, publish_date |-> NoValue,
      image_url |-> NoValue, content |-> NoValue, word_count |-> NoValue,
      reading_time |-> NoValue],
     [author |-> Str("Jane Doe"), keywords |-> List(<<Str("seo"), Str("content")>>),
      publish_date |-> Str("2024-01-15"), image_url |-> Str("https://example.com/i.png"),
      content |-> Str("Some body text."), word_count |-> Num(3), reading_time |-> Num(1)],
     [author |-> Str(""), keywords |-> List(<<>>), publish_date |-> Str("not a date"),
      image_url |-> Str(""), content |-> Num(42), word_count |-> Num(0),
      reading_time |-> NoValue],
     [author |-> Str("Unknown Author"), keywords |-> Num(5), publish_date |-> NoValue,
      image_url |-> NoValue, content |-> NoValue, word_count |-> NoValue,
      reading_time |-> NoValue],
     [author |-> Str("Jane Doe"), keywords |-> NoValue,
      publish_date |-> Str("2024-01-15T10:30:00Z"), image_url |-> NoValue,
      content |-> Str("Some body text."), word_count |-> NoValue, reading_time |-> NoValue],
     [author |-> NoValue, keywords |-> List(<<Str("seo"), Str("content")>>),
      publish_date |-> Str("January 15, 2024"), image_url |-> Str("https://example.com/i.png"),
      content |-> NoValue, word_count |-> Num(3), reading_time |-> NoValue]}

ContentDatas ==
    {Dict(MkDict([title |-> t, description |-> d, url |-> u, author |-> x.author,
                  keywords |-> x.keywords, publish_date |-> x.publish_date,
                  image_url |-> x.image_url, content |-> x.content,
                  word_count |-> x.word_count, reading_time |-> x.reading_time])) :
        t \in Titles, d \in Descriptions, u \in PageUrls, x \in Rests}

Kw(word) == Dict(D2("word", Str(word), "frequency", Num(2)))

FullAnalysis ==
    Dict(D3("content_metrics", Dict(D1("word_count", Num(250))),
            "keyword_analysis", Dict(D1("top_keywords", List(<<Kw("seo"), Kw("blog")>>))),
            "readability", Dict(D1("reading_level", Str("Easy")))))

\* keyword_analysis is no mapping: _enhance_with_analysis stops there
BrokenAnalysis ==
    Dict(D2("keyword_analysis", Num(1), "readability", Dict(EmptyDict)))

AiAnalysis ==
    Dict(D2("keyword_analysis", Dict(D1("top_keywords", List(<<Kw("blog")>>))),
            "ai_insights", Dict(D2("main_topics", List(<<Str("SEO"), Str("Blog")>>),
                                   "target_audience", Str("Developers")))))

SiteConfig ==
    Dict(D2("author", Dict(D2("url", Str("https://example.com/jane"), "jobTitle", Str(""))),
            "publisher", Dict(D2("name", Str("Example Media"),
                                 "logo", Str("https://example.com/logo.png")))))

\* analysis_data and site_config, taken together
Collaborators ==
    {[analysis_data |-> Null, site_config |-> Null],
     [analysis_data |-> FullAnalysis, site_config |-> Null],
     [analysis_data |-> BrokenAnalysis, site_config |-> SiteConfig],
     [analysis_data |-> AiAnalysis, site_config |-> SiteConfig],
     [analysis_data |-> Dict(EmptyDict), site_config |-> Num(1)],
     [analysis_data |-> Null, site_config |-> SiteConfig]}

\* the orders in which a set of keywords can be iterated
HashOrders ==
    {<<Str("seo"), Str("content"), Str("blog")>>,
     <<Str("blog"), Str("content"), Str("seo")>>,
     <<Str("content"), Str("blog"), Str("seo")>>}

-----------------------------------------------------------------------------
(* The Schema Builder as a state machine: one call of                      *)
(* build_blogposting_schema on arguments drawn by InitBuilder              *)

\* calls whose content_data carries a keyword more than once
RepeatedKeywords ==
    {<<Str("seo"), Str("seo")>>, <<Str("seo"), Str("content"), Str("seo")>>,
     <<Str("blog"), Str("blog"), Str("blog")>>}

KeywordCalls ==
    {[content_data |-> Dict([title |-> Str("Hello World"),
                             url |-> Str("https://www.example.com/blog/my-post"),
                             keywords |-> List(k)]),
      analysis_data |-> a, site_config |-> Null] :
        k \in RepeatedKeywords, a \in {Null, FullAnalysis, AiAnalysis}}

\* calls with further URLs: one path element, doubled slashes, no host,
\* and a URL that urlparse rejects
BreadcrumbUrls ==
    {"https://example.com/post", "https://example.com//a-b//c_d/my_post/",
     "/docs/intro", "http://[bad/a/b"}

BreadcrumbCalls ==
    {[content_data |-> Dict([title |-> Str("Hello World"), url |-> Str(u)]),
      analysis_data |-> Null, site_config |-> Null] : u \in BreadcrumbUrls}

\* calls with and without author, with site configurations that supply all,
\* some or none of the author's properties
AuthorConfigs ==
    {Null,
     Dict(D1("author", Dict(D4("url", Str("https://example.com/jane"),
                               "sameAs", List(<<Str("https://social.example/jane")>>),
                               "jobTitle", Str("Editor"),
                               "worksFor", Str("Example Media"))))),
     Dict(D1("author", Dict(D4("url", Str(""), "sameAs", List(<<>>),
                               "jobTitle", Null, "worksFor", Str("Example Media"))))),
     Dict(D1("author", Str("Jane Doe"))),
     Dict(D1("publisher", Dict(D1("name", Str("Example Media")))))}

AuthorCalls ==
    {[content_data |-> Dict(MkDict([title |-> Str("Hello World"),
                                    url |-> Str("https://www.example.com/blog/my-post"),
                                    author |-> a])),
      analysis_data |-> Null, site_config |-> c] :
        a \in {NoValue, Null, Str(""), Str("Unknown Author"), Str("Jane Doe")},
        c \in AuthorConfigs}

\* the schemas validate_schema is called with: every combination of the
\* required fields present or absent, with several types, URLs and dates
SchemaTypes == {NoValue, Str("BlogPosting"), Str("Article")}
SchemaUrls ==
    {NoValue, Str(""), Str("https://www.example.com/blog/my-post"), Str("/blog/my-post"),
     Num(5)}
SchemaDates ==
    {NoValue, Str("2024-01-15T10:30:00Z"), Str("2024-01-15T10:30:00+02:00"),
     Str("2024-01-15"), Str("not a date"), Str("Tue, 15 Jan 2024 10:30:00 +0000"), Null}
SchemaExtras ==
    {[image |-> NoValue, keywords |-> NoValue],
     [image |-> Str("https://example.com/i.png"), keywords |-> NoValue],
     [image |-> Str("https://example.com/i.png"), keywords |-> List(<<Str("seo")>>)]}

Schemas ==
    {Dict(MkDict([headline |-> h, author |-> a, publisher |-> p,
                  url |-> u, datePublished |-> d, image |-> x.image,
                  keywords |-> x.keywords])
          @@ (IF c THEN D1("@context", Str(schema_context)) ELSE EmptyDict)
          @@ (IF t = NoValue THEN EmptyDict ELSE D1("@type", t))) :
        c \in BOOLEAN, t \in SchemaTypes,
        h \in {NoValue, Str("Hello World")},
        a \in {NoValue, Dict(D2("@type", Str("Person"), "name", Str("Jane Doe")))},
        p \in {NoValue, Dict(D2("@type", Str("Organization"), "name", Str("Example")))},
        u \in SchemaUrls, d \in SchemaDates, x \in SchemaExtras}

\* calls with publisher configurations whose name is empty, null or absent
PublisherConfigs ==
    {Dict(D1("publisher", Dict(D2("name", Str(""), "logo", Str("https://example.com/logo.png"))))),
     Dict(D1("publisher", Dict(D1("name", Null)))),
     Dict(D1("publisher", Dict(D1("url", Str("https://example.com")))))}

PublisherCalls ==
    {[content_data |-> Dict([title |-> Str("Hello World"),
                             url |-> Str("https://www.example.com/blog/my-post")]),
      analysis_data |-> Null, site_config |-> c] : c \in PublisherConfigs}

\* the publish dates _format_date is called with
DateStrings ==
    {"2024-01-15", "January 15, 2024", "2024-01-15T10:30:00",
     "2024-01-15T10:30:00-05:00", "2024-01-15 10:30:00 +0200",
     "2024-01-15T10:30:00Z", "2024-01-15T10:30:00+02:00",
     "Tue, 15 Jan 2024 10:30:00 +0000", "not a date", ""}

InitBuilder ==
    /\ pc = "build_call"
    /\ \/ \E content_data \in ContentDatas, c \in Collaborators :
             args = [content_data |-> content_data, analysis_data |-> c.analysis_data,
                     site_config |-> c.site_config]
       \/ args \in KeywordCalls \cup BreadcrumbCalls \cup AuthorCalls \cup PublisherCalls
       \/ args \in {[date_str |-> Str(d)] : d \in DateStrings}
       \/ args \in {[schema |-> x] : x \in Schemas}
    /\ ret = NoValue
    /\ exc = FALSE
    /\ trail = <<>>

BuildSchema ==
    /\ pc = "build_call"
    /\ "content_data" \in DOMAIN args
    /\ \E ord \in HashOrders :
          LET out == build_blogposting_schema(args.content_data, args.analysis_data,
                                              args.site_config, ord)
          IN /\ ret' = out.schema
             /\ exc' = out.raised
    /\ pc' = "build_done"
    /\ UNCHANGED <<args, trail>>

\* a call of SchemaBuilder._build_breadcrumb_schema
BuildBreadcrumb ==
    /\ pc = "build_call"
    /\ "content_data" \in DOMAIN args
    /\ ret' = _build_breadcrumb_schema(args.content_data.d)
    /\ exc' = FALSE
    /\ pc' = "breadcrumb_done"
    /\ UNCHANGED <<args, trail>>

\* a call of SchemaBuilder._format_date
FormatDate ==
    /\ pc = "build_call"
    /\ "date_str" \in DOMAIN args
    /\ ret' = Str(_format_date(args.date_str))
    /\ exc' = FALSE
    /\ pc' = "format_date_done"
    /\ UNCHANGED <<args, trail>>

\* a call of SchemaBuilder.validate_schema
ValidateSchema ==
    /\ pc = "build_call"
    /\ "schema" \in DOMAIN args
    /\ ret' = validate_schema(args.schema.d).results
    /\ exc' = validate_schema(args.schema.d).raised
    /\ pc' = "validate_done"
    /\ UNCHANGED <<args, trail>>

\* a second run of build_blogposting_schema on the arguments of the first;
\* the set of keywords is iterated in an order of its own
BuildAgain ==
    /\ pc = "build_done"
    /\ \E ord \in HashOrders :
          LET out == build_blogposting_schema(args.content_data, args.analysis_data,
                                              args.site_config, ord)
          IN /\ ret' = out.schema
             /\ exc' = out.raised
    /\ pc' = "build_again_done"
    /\ UNCHANGED <<args, trail>>

NextBuilder ==
    \/ BuildSchema
    \/ BuildBreadcrumb
    \/ FormatDate
    \/ ValidateSchema
    \/ BuildAgain

SpecBuilder == InitBuilder /\ [][NextBuilder]_vars

-----------------------------------------------------------------------------
(* Claims about the Schema Builder, checked under SpecBuilder *)

BuildDone == pc = "build_done"

\* the call took the rich path: no step of the try block raised
RichPath == BuildDone /\ ~exc /\ ~RichRaises(args.content_data.d, args.site_config)

\* the call took the fallback path: a step raised and _minimal_schema answered
FallbackPath == BuildDone /\ ~exc /\ RichRaises(args.content_data.d, args.site_config)

EmptyValue(v) == v = Null \/ v = Str("") \/ v = List(<<>>) \/ v = Dict(EmptyDict)

\* some mapping inside v, at any depth and also inside lists, has a key
\* whose value is empty
RECURSIVE HasEmptyEntry(_)
HasEmptyEntry(v) ==
    IF IsDict(v)
    THEN \E k \in DOMAIN v.d : EmptyValue(v.d[k]) \/ HasEmptyEntry(v.d[k])
    ELSE IF IsList(v) THEN \E i \in DOMAIN v.l : HasEmptyEntry(v.l[i])
    ELSE FALSE

\* C1: the result of _validate_and_clean_schema (the schema of the rich
\* path) has, at every nesting depth and also in the mappings that are
\* elements of lists, no key whose value is an empty string, an empty list,
\* null or an empty mapping.
C1_NoEmptyValueAtAnyDepth == RichPath => ~HasEmptyEntry(ret)

StrOrAbsent(d, k) == k \in DOMAIN d => IsStr(d[k])

\* C2: when title and description are strings, the returned schema has
\* len(headline) <= 110 and len(description) <= 160 whenever those keys are
\* present, on the rich path and on the fallback path.
C2_HeadlineAndDescriptionWithinLimits ==
    (/\ BuildDone /\ ~exc
     /\ StrOrAbsent(args.content_data.d, "title")
     /\ StrOrAbsent(args.content_data.d, "description"))
    => /\ "headline" \in DOMAIN ret.d => Len(ret.d["headline"].s) <= HeadlineLimit
       /\ "description" \in DOMAIN ret.d => Len(ret.d["description"].s) <= DescriptionLimit

SourceList(v) == IF IsList(v) THEN v.l ELSE <<>>

SectionOf(name) ==
    IF IsDict(args.analysis_data) /\ IsDict(Get(args.analysis_data.d, name))
    THEN Get(args.analysis_data.d, name).d
    ELSE EmptyDict

ExtractorKeywords == Range(SourceList(Get(args.content_data.d, "keywords")))

AnalyzerKeywords ==
    LET top == SourceList(Get(SectionOf("keyword_analysis"), "top_keywords"))
    IN {top[i].d["word"] : i \in DOMAIN top}

AiTopics ==
    LET topics == SourceList(Get(SectionOf("ai_insights"), "main_topics"))
    IN {Str(Lower(topics[i].s)) : i \in DOMAIN topics}

KeywordCap == IF AiTopics = {} THEN MergedKeywordLimit ELSE AiKeywordLimit

\* C16: the 'keywords' list of the schema build_blogposting_schema returns
\* has no duplicate entry, has at most 20 entries when no AI topics are
\* supplied and at most 25 otherwise, and when the union of the extractor's
\* keywords, the analyzer's top keywords and the AI topics is below the cap,
\* it contains exactly that union.
C16_KeywordsMergedWithoutDuplicates ==
    (BuildDone /\ IsList(Get(ret.d, "keywords"))) =>
        LET keywords == ret.d["keywords"].l
            union == ExtractorKeywords \cup AnalyzerKeywords \cup AiTopics
        IN /\ \A i, j \in DOMAIN keywords : keywords[i] = keywords[j] => i = j
           /\ Len(keywords) <= KeywordCap
           /\ Cardinality(union) < KeywordCap => Range(keywords) = union

\* the URL of the call is a string that urlparse accepts
UrlParses ==
    /\ IsStr(Get(args.content_data.d, "url"))
    /\ ~UrlparseRaises(args.content_data.d["url"].s)

\* the non-empty segments of the path of the URL of the call
Segments == NonEmpty(Split(urlparse(args.content_data.d["url"].s).path, "/"))

SiteRoot ==
    urlparse(args.content_data.d["url"].s).scheme \o "://"
        \o urlparse(args.content_data.d["url"].s).netloc

\* "/" and the first i segments, joined by "/"
RECURSIVE Cumulative(_, _)
Cumulative(segments, i) ==
    IF i = 0 THEN "" ELSE Cumulative(segments, i - 1) \o "/" \o segments[i]

SegmentLabel(segment) == Title(Replace(Replace(segment, "-", " "), "_", " "))

\* items is the breadcrumb of the segments: Home, the segments before the
\* last, the current page
IsBreadcrumbOf(items, segments) ==
    /\ Len(items) = Len(segments) + 1
    /\ \A i \in DOMAIN items :
          /\ DOMAIN items[i].d = {"@type", "position", "name", "item"}
          /\ items[i].d["@type"] = Str("ListItem")
          /\ items[i].d["position"] = Num(i)
    /\ items[1].d["name"] = Str("Home")
    /\ items[1].d["item"] = Str(SiteRoot)
    /\ \A i \in 2..Len(segments) :
          /\ items[i].d["name"] = Str(SegmentLabel(segments[i - 1]))
          /\ items[i].d["item"] = Str(SiteRoot \o Cumulative(segments, i - 1))
    /\ items[Len(items)].d["item"] = args.content_data.d["url"]
    /\ "title" \in DOMAIN args.content_data.d =>
          items[Len(items)].d["name"] = args.content_data.d["title"]

\* C17: _build_breadcrumb_schema returns no breadcrumb when the path of the
\* URL has fewer than two non-empty segments; for a path of k >= 2 segments
\* it returns exactly k + 1 list items with the positions 1..k+1 in order:
\* 'Home' pointing at scheme://host, each segment before the last named by
\* the segment with hyphens and underscores replaced by spaces and
\* title-cased and pointing at the cumulative path prefix, and the current
\* page pointing at the full URL and labelled with the headline.
C17_BreadcrumbOfPathSegments ==
    (pc = "breadcrumb_done" /\ UrlParses) =>
        IF Len(Segments) < 2 THEN ret = Null
        ELSE /\ IsDict(ret)
             /\ DOMAIN ret.d = {"@type", "itemListElement"}
             /\ ret.d["@type"] = Str("BreadcrumbList")
             /\ IsBreadcrumbOf(ret.d["itemListElement"].l, Segments)

C17_Witness ==
    /\ pc = "breadcrumb_done"
    /\ Get(args.content_data.d, "url") = Str("https://blog.example.org/a_b/c-d/e")
    /\ Get(args.content_data.d, "title") = Str("Hello World")
    /\ Len(ret.d["itemListElement"].l) = 4
    /\ ret.d["itemListElement"].l[2].d["name"] = Str("A B")
    /\ ret.d["itemListElement"].l[3].d["item"] = Str("https://blog.example.org/a_b/c-d")
    /\ ret.d["itemListElement"].l[4].d["name"] = Str("Hello World")

\* the string has a 'T' and a timezone marker
LooksIso(s) == Contains(s, "T") /\ (Contains(s, "Z") \/ Contains(Last(s, 6), "+"))

\* the datePublished check of validate_schema accepts the timestamp, and
\* the timestamp has a zone
AcceptedWithZone(s) == HasZone(Replace(s, "Z", "+00:00"))

\* C18: for every publish-date string _format_date never raises and returns
\* an ISO-8601 timestamp with a timezone, one the datePublished check of
\* validate_schema accepts: a string with a 'T' and a timezone marker is
\* returned unchanged, another string that can be parsed is converted, with
\* UTC when it carries no zone, and a string that cannot be parsed gives the
\* current UTC time.
C18_FormatDateGivesIsoTimestamp ==
    pc = "format_date_done" =>
        /\ ~exc
        /\ AcceptedWithZone(ret.s)
        /\ LooksIso(args.date_str.s) => ret = args.date_str
        /\ (~LooksIso(args.date_str.s) /\ DateutilParse(args.date_str.s).ok) =>
              /\ Take(ret.s, 19) = DateutilParse(args.date_str.s).iso
              /\ DateutilParse(args.date_str.s).tz = "" => Drop(ret.s, 19) = "+00:00"
        /\ (~LooksIso(args.date_str.s) /\ ~DateutilParse(args.date_str.s).ok) =>
              ret = Str(NowIso)

\* the author name content_data carries, Null when it has none
AuthorName == Get(args.content_data.d, "author")

\* what site_config.author supplies for a property, Null when nothing
AuthorConfigOf(k) ==
    IF IsDict(args.site_config) /\ IsDict(Get(args.site_config.d, "author"))
    THEN Get(args.site_config.d["author"].d, k)
    ELSE Null

\* a property of the author node is there only when the site configuration
\* supplies a non-empty value for it, and has that value
FromAuthorConfig(author) ==
    /\ \A k \in {"url", "sameAs", "jobTitle"} :
          k \in DOMAIN author => (Truthy(AuthorConfigOf(k)) /\ author[k] = AuthorConfigOf(k))
    /\ "worksFor" \in DOMAIN author =>
          /\ Truthy(AuthorConfigOf("worksFor"))
          /\ author["worksFor"]
               = Dict(D2("@type", Str("Organization"), "name", AuthorConfigOf("worksFor")))
    /\ DOMAIN author \subseteq {"@type", "name", "url", "sameAs", "jobTitle", "worksFor"}

\* C19: on the rich path of build_blogposting_schema the 'author' key is
\* present if and only if content_data carries a non-empty author name other
\* than the placeholder 'Unknown Author'; its name is then that author name,
\* and url, sameAs, jobTitle and worksFor appear only when site_config.author
\* supplies a non-empty value for them.  A page without author gives a
\* schema without author key.
C19_AuthorOnlyWhenNamed ==
    RichPath =>
        /\ "author" \in DOMAIN ret.d
              <=> (Truthy(AuthorName) /\ AuthorName # Str("Unknown Author"))
        /\ "author" \in DOMAIN ret.d =>
              /\ ret.d["author"].d["@type"] = Str("Person")
              /\ ret.d["author"].d["name"] = AuthorName
              /\ FromAuthorConfig(ret.d["author"].d)

C19_Witness ==
    /\ RichPath
    /\ AuthorName = Str("Jane Doe")
    /\ DOMAIN ret.d["author"].d = {"@type", "name", "url", "sameAs", "jobTitle", "worksFor"}
    /\ ret.d["author"].d["jobTitle"] = Str("Editor")

\* the schema of the call is invalid: a required field is missing, the
\* type is not BlogPosting, or datePublished is there and cannot be parsed
\* as ISO-8601
InvalidSchema(schema) ==
    \/ \E i \in DOMAIN required_fields : required_fields[i] \notin DOMAIN schema
    \/ Get(schema, "@type") # Str("BlogPosting")
    \/ /\ "datePublished" \in DOMAIN schema
       /\ ~(IsStr(schema["datePublished"])
            /\ IsIsoformat(Replace(schema["datePublished"].s, "Z", "+00:00")))

\* the URL of the schema is missing or not absolute
NoAbsoluteUrl(schema) ==
    ~(IsStr(Get(schema, "url"))
      /\ (StartsWith(schema["url"].s, "http://") \/ StartsWith(schema["url"].s, "https://")))

\* C20: validate_schema returns is_valid = false exactly when one of
\* @context, @type, headline, author, publisher is missing, or @type is not
\* 'BlogPosting', or datePublished is present and cannot be parsed as
\* ISO-8601; a missing or non-absolute url only adds a warning, a missing
\* image or keywords only adds a suggestion; the call never raises.
C20_ValidationReport ==
    pc = "validate_done" =>
        /\ ~exc
        /\ ret.d.is_valid = Bool(~InvalidSchema(args.schema.d))
        /\ ret.d.is_valid.b <=> ret.d.errors = List(<<>>)
        /\ ret.d.warnings # List(<<>>) <=> NoAbsoluteUrl(args.schema.d)
        /\ Len(ret.d.suggestions.l)
             = Cardinality({"image", "keywords"} \ DOMAIN args.schema.d)

\* the step from the first run of the builder to the second
SecondRun == pc = "build_done" /\ pc' = "build_again_done"

\* C21: two runs of build_blogposting_schema on identical content_data,
\* analysis_data and site_config return identical schemas: the same keys,
\* the same values and the same keyword list in the same order (the clock
\* of the model stands still, so the values derived from the current time
\* are the same in both runs).
C21_SameInputSameSchema ==
    [][SecondRun => (ret' = ret /\ exc' = exc)]_vars

\* what site_config.publisher supplies for a property, Null when nothing
PublisherConfigOf(k) ==
    IF IsDict(args.site_config) /\ IsDict(Get(args.site_config.d, "publisher"))
    THEN Get(args.site_config.d["publisher"].d, k)
    ELSE Null

\* the content URL is a string with a host
UrlWithHost ==
    /\ IsStr(Get(args.content_data.d, "url"))
    /\ ~UrlparseRaises(args.content_data.d["url"].s)
    /\ urlparse(args.content_data.d["url"].s).netloc # ""

\* the title-cased first label of the domain of the content URL
DomainLabel ==
    Title(Split(Replace(urlparse(args.content_data.d["url"].s).netloc, "www.", ""), ".")[1])

\* C22: the schema build_blogposting_schema returns contains a 'publisher'
\* node with a non-empty name: the configured publisher name when
\* site_config supplies one, otherwise the title-cased first label of the
\* domain of the URL ('Example' for www.example.com); a logo node appears
\* only when a logo URL is configured.
C22_PublisherNamed ==
    /\ (BuildDone /\ ~exc) =>
          /\ IsDict(Get(ret.d, "publisher"))
          /\ IsStr(Get(ret.d["publisher"].d, "name"))
          /\ ret.d["publisher"].d["name"].s # ""
          /\ "logo" \in DOMAIN ret.d["publisher"].d => Truthy(PublisherConfigOf("logo"))
    /\ (RichPath /\ Truthy(PublisherConfigOf("name"))) =>
          ret.d["publisher"].d["name"] = PublisherConfigOf("name")
    /\ (RichPath /\ ~Truthy(PublisherConfigOf("name")) /\ UrlWithHost) =>
          ret.d["publisher"].d["name"] = Str(DomainLabel)

-----------------------------------------------------------------------------
(* src/analyzer.py: class ContentAnalyzer *)

\* a float that the code rounds to 2 places, held in hundredths, and a
\* float that is the quotient of two integers
Dec(h) == [t |-> "dec", h |-> h]
Frac(n, d) == [t |-> "frac", n |-> n, d |-> d]

\* type(v).__name__
TypeName(v) ==
    CASE v.t = "null" -> "NoneType"
      [] v.t = "str" -> "str"
      [] v.t = "int" -> "int"
      [] v.t = "bool" -> "bool"
      [] v.t = "list" -> "list"
      [] v.t = "dict" -> "dict"
      [] OTHER -> "float"

Max2(a, b) == IF a >= b THEN a ELSE b
Min2(a, b) == IF a <= b THEN a ELSE b

\* round(n / d) for n >= 0, d > 0: to the nearest integer, a tie to the even one
RoundDiv(n, d) ==
    LET q == n \div d
        r == n % d
    IN IF 2 * r < d THEN q
       ELSE IF 2 * r > d THEN q + 1
       ELSE IF q % 2 = 0 THEN q ELSE q + 1

\* round(n / d, 2) in hundredths
Round2(n, d) == RoundDiv(100 * n, d)

SentenceEnds == {".", "!", "?"}

\* re.split(r'[.!?]+', s): the pieces between the runs of sentence ends,
\* the empty pieces at either end included
ReSplit(s) ==
    LET IsEnd(i) == Chr(s, i) \in SentenceEnds
        starts == Indices([k \in 1..(Len(s) + 1) |->
                             k = 1 \/ (IsEnd(k - 1) /\ (k - 1 = Len(s) \/ ~IsEnd(k)))])
        Stop(i) == MinOf({j \in i..(Len(s) + 1) : j = Len(s) + 1 \/ IsEnd(j)})
    IN [n \in DOMAIN starts |-> SubSeq(s, starts[n], Stop(starts[n]) - 1)]

\* [s.strip() for s in seq if s.strip()]
RECURSIVE StrippedNonBlank(_)
StrippedNonBlank(seq) ==
    IF seq = <<>> THEN <<>>
    ELSE (IF Strip(Head(seq)) = "" THEN <<>> ELSE <<Strip(Head(seq))>>)
            \o StrippedNonBlank(Tail(seq))

WordsPerMinute == 200

\* _analyze_content_metrics, for a content that is a string
ContentMetrics(content, words, sentences, paragraphs) ==
    [word_count |-> Num(Len(words)),
     sentence_count |-> Num(Len(StrippedNonBlank(sentences))),
     paragraph_count |-> Num(Len(StrippedNonBlank(paragraphs))),
     average_words_per_sentence |-> Dec(Round2(Len(words), Max2(1, Len(sentences)))),
     average_sentences_per_paragraph |->
         Dec(Round2(Len(sentences), Max2(1, Len(paragraphs)))),
     character_count |-> Num(Len(content)),
     character_count_no_spaces |-> Num(Len(Replace(content, " ", ""))),
     reading_time_minutes |-> Num(Max2(1, RoundDiv(Len(words), WordsPerMinute)))]

_analyze_content_metrics(content) ==
    ContentMetrics(content, SplitWs(content), ReSplit(content), Split(content, "\n\n"))

Vowels == "aeiouy"

\* count_syllables of _analyze_readability, for a non-empty word
\* the count for the word in lower case
RawSyllables(w) ==
    LET c1 == IF Contains(Vowels, Chr(w, 1)) THEN 1 ELSE 0
        c2 == Cardinality({index \in 2..Len(w) :
                              /\ Contains(Vowels, Chr(w, index))
                              /\ ~Contains(Vowels, Chr(w, index - 1))})
        c3 == IF EndsWith(w, "e") THEN 1 ELSE 0
    IN c1 + c2 - c3

\* the faulty variant: the count is not raised from 0 to 1
SyllablesWithoutFloor(w) == RawSyllables(w)

\* the count, raised to 1 when it is 0
SyllablesOf(w) == IF RawSyllables(w) = 0 THEN 1 ELSE RawSyllables(w)

count_syllables(word) == SyllablesOf(Lower(word))

RECURSIVE SumSyllables(_)
SumSyllables(words) ==
    IF words = <<>> THEN 0 ELSE count_syllables(Head(words)) + SumSyllables(Tail(words))

\* the Flesch score before clamping, as the fraction num / den with
\* den > 0: 206.835 - 1.015 * (words / sentences) - 84.6 * (syllables / words)
FleschNum(nwords, nsentences, nsyllables) ==
    206835 * nsentences * nwords - 1015 * nwords * nwords - 84600 * nsyllables * nsentences
FleschDen(nwords, nsentences) == 1000 * nsentences * nwords

\* the faulty variant: the score is not clamped
NoClamp(num, den) == num

\* max(0, min(100, num / den)) as a fraction over den
Clamp(num, den) == Max2(0, Min2(100 * den, num))

reading_level(num, den) ==
    IF num >= 90 * den THEN "Very Easy"
    ELSE IF num >= 80 * den THEN "Easy"
    ELSE IF num >= 70 * den THEN "Fairly Easy"
    ELSE IF num >= 60 * den THEN "Standard"
    ELSE IF num >= 50 * den THEN "Fairly Difficult"
    ELSE IF num >= 30 * den THEN "Difficult"
    ELSE "Very Difficult"

\* round(x, 2) in hundredths for the fraction num / den of either sign
Round2Signed(num, den) == IF num >= 0 THEN Round2(num, den) ELSE 0 - Round2(0 - num, den)

\* _analyze_readability, for a content that is a string; max and min hand
\* back the integer bound itself when the score is clamped to it
\* the scores for the numbers of words, sentences and syllables
ReadabilityScores(nwords, nsentences, total_syllables) ==
    LET den == FleschDen(nwords, nsentences)
        flesch_score == Clamp(FleschNum(nwords, nsentences, total_syllables), den)
    IN [flesch_score |-> IF flesch_score = 0 THEN Num(0)
                         ELSE IF flesch_score = 100 * den THEN Num(100)
                         ELSE Dec(Round2Signed(flesch_score, den)),
        reading_level |-> Str(reading_level(flesch_score, den)),
        average_sentence_length |-> Dec(Round2(nwords, nsentences)),
        average_syllables_per_word |-> Dec(Round2(total_syllables, nwords)),
        total_syllables |-> Num(total_syllables)]

Readability(words, sentences) ==
    IF words = <<>> \/ sentences = <<>>
    THEN [flesch_score |-> Num(0), reading_level |-> Str("Unknown")]
    ELSE ReadabilityScores(Len(words), Len(sentences), SumSyllables(words))

_analyze_readability(content) ==
    Readability(SplitWs(content), StrippedNonBlank(ReSplit(content)))

stop_words ==
    {"the", "a", "an", "and", "or", "but", "in", "on", "at", "to", "for",
     "of", "with", "by", "from", "up", "about", "into", "through", "during",
     "before", "after", "above", "below", "between", "among", "amongst",
     "i", "you", "he", "she", "it", "we", "they", "me", "him", "her", "us",
     "them", "my", "your", "his", "its", "our", "their", "this",
     "that", "these", "those", "am", "is", "are", "was", "were", "be",
     "been", "being", "have", "has", "had", "do", "does", "did", "will",
     "would", "could", "should", "may", "might", "must", "can", "shall"}

MinWordLength == 3
MaxKeywords == 20
MaxPhrases == 10
MaxDistribution == 50

\* \w of a regular expression
IsWordChr(c) == IsAlpha(c) \/ IsDigit(c) \/ c = "_"

\* re.findall(r'\b[a-zA-Z]{3,}\b', s): the runs of word characters that
\* are letters only and at least 3 long
FindWords(s) ==
    LET IsWord(i) == IsWordChr(Chr(s, i))
        starts == Indices([i \in 1..Len(s) |-> IsWord(i) /\ (i = 1 \/ ~IsWord(i - 1))])
        End(i) == MinOf({j \in i..Len(s) : j = Len(s) \/ ~IsWord(j + 1)})
        runs == [n \in DOMAIN starts |-> SubSeq(s, starts[n], End(starts[n]))]
        Letters(w) == Len(w) >= MinWordLength /\ \A i \in 1..Len(w) : IsAlpha(Chr(w, i))
    IN SelectSeq(runs, Letters)

NotStopWord(w) == w \notin stop_words

\* how often x occurs in seq
Count(seq, x) == Cardinality({i \in DOMAIN seq : seq[i] = x})

\* the distinct elements of seq in the order of their first occurrence
RECURSIVE Distinct(_)
Distinct(seq) ==
    IF seq = <<>> THEN <<>>
    ELSE LET init == Distinct(SubSeq(seq, 1, Len(seq) - 1))
             last == seq[Len(seq)]
         IN IF last \in Range(init) THEN init ELSE Append(init, last)

\* Counter(seq).most_common(): the distinct elements by falling count, equal
\* counts in the order of first occurrence
RECURSIVE ByCount(_, _)
ByCount(seq, keys) ==
    IF keys = <<>> THEN <<>>
    ELSE LET best == MaxOf({Count(seq, keys[i]) : i \in DOMAIN keys})
             at == MinOf({i \in DOMAIN keys : Count(seq, keys[i]) = best})
             rest == [i \in 1..(Len(keys) - 1) |-> IF i < at THEN keys[i] ELSE keys[i + 1]]
         IN <<keys[at]>> \o ByCount(seq, rest)

most_common(seq, n) == Take(ByCount(seq, Distinct(seq)), n)

\* _extract_phrases: the windows of 2 and then of 3 consecutive words
\* without a stop word
PhrasesOf(words) ==
    LET Two(i) == NotStopWord(words[i]) /\ NotStopWord(words[i + 1])
        Three(i) == Two(i) /\ NotStopWord(words[i + 2])
        I2 == SelectSeq([i \in 1..(Len(words) - 1) |-> i], Two)
        I3 == SelectSeq([i \in 1..(Len(words) - 2) |-> i], Three)
    IN [j \in DOMAIN I2 |-> words[I2[j]] \o " " \o words[I2[j] + 1]]
       \o [j \in DOMAIN I3 |-> words[I3[j]] \o " " \o words[I3[j] + 1] \o " " \o words[I3[j] + 2]]

_extract_phrases(text) == PhrasesOf(FindWords(text))

\* _extract_keywords, for a content that is a string and a title that is one
\* the analysis for the words of the text, those of them that are no stop
\* words, and the phrases
KeywordAnalysis(words, filtered_words, phrases) ==
    LET kws == most_common(filtered_words, MaxKeywords)
        phs == most_common(phrases, MaxPhrases)
        dist == most_common(filtered_words, MaxDistribution)
    IN [total_unique_words |-> Num(Cardinality(Range(filtered_words))),
        keyword_density |-> Frac(Len(filtered_words), Max2(1, Len(words))),
        top_keywords |->
            List([i \in DOMAIN kws |->
                    Dict([word |-> Str(kws[i]),
                          frequency |-> Num(Count(filtered_words, kws[i])),
                          relevance_score |-> Frac(Count(filtered_words, kws[i]),
                                                   Len(filtered_words))])]),
        top_phrases |->
            List([i \in DOMAIN phs |->
                    Dict([phrase |-> Str(phs[i]),
                          frequency |-> Num(Count(phrases, phs[i])),
                          relevance_score |-> Frac(Count(phrases, phs[i]), Len(phrases))])]),
        word_frequency_distribution |->
            Dict([w \in Range(dist) |-> Num(Count(filtered_words, w))])]

KeywordsOf(words, phrases) ==
    KeywordAnalysis(words, SelectSeq(words, NotStopWord), phrases)

_extract_keywords(content, title) ==
    KeywordsOf(FindWords(Lower(title \o " " \o title \o " " \o content)),
               _extract_phrases(Lower(content)))

\* the message of the exception an operation raises; NoError when it raises none
NoError == ""
NoAttribute(v, name) == "'" \o TypeName(v) \o "' object has no attribute '" \o name \o "'"

\* the elements a for loop runs over: of a list its elements, of an empty
\* string or mapping none
Items(v) == IF IsList(v) THEN v.l ELSE <<>>

\* "for x in v: x.get(...)": a value that cannot be iterated, or the first
\* element that is no mapping (of a string a character, of a mapping a key)
RECURSIVE FirstNonDict(_)
FirstNonDict(seq) ==
    IF seq = <<>> THEN NoError
    ELSE IF ~IsDict(Head(seq)) THEN NoAttribute(Head(seq), "get")
    ELSE FirstNonDict(Tail(seq))

LoopError(v) ==
    IF IsList(v) THEN FirstNonDict(v.l)
    ELSE IF IsStr(v) \/ IsDict(v) THEN (IF Truthy(v) THEN NoAttribute(Str(""), "get") ELSE NoError)
    ELSE "'" \o TypeName(v) \o "' object is not iterable"

IsNumber(v) == IsInt(v) \/ v.t = "bool"
NumberOf(v) == IF IsInt(v) THEN v.n ELSE IF v.b THEN 1 ELSE 0

\* _check_heading_hierarchy: "true", "false", or the message of the
\* exception when a level that is no number is compared
RECURSIVE CheckLevels(_, _)
CheckLevels(levels, prev_level) ==
    IF levels = <<>> THEN "true"
    ELSE IF ~IsNumber(Head(levels))
    THEN "'>' not supported between instances of '" \o TypeName(Head(levels)) \o "' and 'int'"
    ELSE IF NumberOf(Head(levels)) > prev_level + 1 THEN "false"
    ELSE CheckLevels(Tail(levels), NumberOf(Head(levels)))

LevelsOf(headings) == [i \in DOMAIN headings |-> GetOr(headings[i].d, "level", Num(1))]

_check_heading_hierarchy(headings) == CheckLevels(LevelsOf(headings), 0)

\* the exception _analyze_structure raises: in the loop over the headings,
\* in the comprehensions over the links, in the hierarchy check
StructureError(content_data) ==
    LET headings == GetOr(content_data, "headings", List(<<>>))
        links == GetOr(content_data, "links", List(<<>>))
    IN IF LoopError(headings) # NoError THEN LoopError(headings)
       ELSE IF LoopError(links) # NoError THEN LoopError(links)
       ELSE IF _check_heading_hierarchy(Items(headings)) \notin {"true", "false"}
       THEN _check_heading_hierarchy(Items(headings))
       ELSE NoError

\* _analyze_structure, when it does not raise
_analyze_structure(content_data) ==
    LET headings == Items(GetOr(content_data, "headings", List(<<>>)))
        links == Items(GetOr(content_data, "links", List(<<>>)))
        names == [i \in DOMAIN headings |-> "h" \o Format(LevelsOf(headings)[i])]
        Internal(link) == Truthy(GetOr(link.d, "is_internal", Bool(FALSE)))
        External(link) == ~Truthy(GetOr(link.d, "is_internal", Bool(TRUE)))
        internal_links == SelectSeq(links, Internal)
        external_links == SelectSeq(links, External)
    IN [heading_structure |-> Dict([n \in Range(names) |-> Num(Count(names, n))]),
        total_headings |-> Num(Len(headings)),
        total_links |-> Num(Len(links)),
        internal_links |-> Num(Len(internal_links)),
        external_links |-> Num(Len(external_links)),
        link_distribution |->
            Dict([internal_ratio |-> Frac(Len(internal_links), Max2(1, Len(links))),
                  external_ratio |-> Frac(Len(external_links), Max2(1, Len(links)))]),
        has_proper_heading_hierarchy |->
            Bool(headings = <<>> \/ _check_heading_hierarchy(headings) = "true")]

\* any(keyword.lower() in text.lower() for keyword in keywords): "true",
\* "false", or the message of the exception when a keyword that is no
\* string is reached
RECURSIVE AnyKeywordIn(_, _)
AnyKeywordIn(keywords, text) ==
    IF keywords = <<>> THEN "false"
    ELSE IF ~IsStr(Head(keywords)) THEN NoAttribute(Head(keywords), "lower")
    ELSE IF Contains(Lower(text), Lower(Head(keywords).s)) THEN "true"
    ELSE AnyKeywordIn(Tail(keywords), text)

TopKeywordCount == 5

\* keywords[:5] as a sequence: of a list its elements, of a string its characters
FirstKeywords(keywords) ==
    IF IsList(keywords) THEN Take(keywords.l, TopKeywordCount)
    ELSE [i \in 1..Min2(TopKeywordCount, Len(keywords.s)) |-> Str(Chr(keywords.s, i))]

\* the exception the analysis of one text (title or description) raises
TextError(text, keywords) ==
    IF ~HasLen(text) THEN "object of type '" \o TypeName(text) \o "' has no len()"
    ELSE IF ~IsStr(text) THEN NoAttribute(text, "split")
    ELSE IF IsDict(keywords) THEN "unhashable type: 'slice'"
    ELSE IF ~CanSlice(keywords) THEN "'" \o TypeName(keywords) \o "' object is not subscriptable"
    ELSE IF AnyKeywordIn(FirstKeywords(keywords), text.s) \notin {"true", "false"}
    THEN AnyKeywordIn(FirstKeywords(keywords), text.s)
    ELSE NoError

\* the exception _analyze_seo_factors raises: in the title analysis, the
\* description analysis or the content analysis
SeoError(content_data) ==
    LET title == GetOr(content_data, "title", Str(""))
        description == GetOr(content_data, "description", Str(""))
        keywords == GetOr(content_data, "keywords", List(<<>>))
        headings == GetOr(content_data, "headings", List(<<>>))
        word_count == GetOr(content_data, "word_count", Num(0))
    IN IF TextError(title, keywords) # NoError THEN TextError(title, keywords)
       ELSE IF TextError(description, keywords) # NoError THEN TextError(description, keywords)
       ELSE IF ~HasLen(headings)
       THEN "object of type '" \o TypeName(headings) \o "' has no len()"
       ELSE IF ~IsNumber(word_count)
       THEN "'<=' not supported between instances of 'int' and '" \o TypeName(word_count) \o "'"
       ELSE NoError

TitleMin == 30
TitleMax == 60
DescriptionMin == 120
DescriptionMax == 160
MetaDescriptionMin == 50
WordCountMin == 300
WordCountMax == 2500

\* the faulty variant: the image check is not counted
ScoreWithoutImages(title_analysis, description_analysis, content_analysis) ==
    LET score == (IF title_analysis.optimal_length.b THEN 15 ELSE 0)
                 + (IF title_analysis.has_keywords.b THEN 10 ELSE 0)
                 + (IF description_analysis.optimal_length.b THEN 15 ELSE 0)
                 + (IF description_analysis.has_keywords.b THEN 10 ELSE 0)
                 + (IF content_analysis.has_meta_description.b THEN 10 ELSE 0)
                 + (IF content_analysis.has_headings.b THEN 15 ELSE 0)
                 + (IF content_analysis.word_count_optimal.b THEN 15 ELSE 0)
    IN Dec(Round2(score * 100, 90))

\* _calculate_seo_score: round((score / total_checks) * 100, 2)
_calculate_seo_score(title_analysis, description_analysis, content_analysis) ==
    LET score == (IF title_analysis.optimal_length.b THEN 15 ELSE 0)
                 + (IF title_analysis.has_keywords.b THEN 10 ELSE 0)
                 + (IF description_analysis.optimal_length.b THEN 15 ELSE 0)
                 + (IF description_analysis.has_keywords.b THEN 10 ELSE 0)
                 + (IF content_analysis.has_meta_description.b THEN 10 ELSE 0)
                 + (IF content_analysis.has_headings.b THEN 15 ELSE 0)
                 + (IF content_analysis.has_images.b THEN 10 ELSE 0)
                 + (IF content_analysis.word_count_optimal.b THEN 15 ELSE 0)
        total_checks == 25 + 25 + 50
    IN Dec(Round2(score * 100, total_checks))

\* _analyze_seo_factors, when it does not raise
_analyze_seo_factors(content_data) ==
    LET title == GetOr(content_data, "title", Str("")).s
        description == GetOr(content_data, "description", Str("")).s
        keywords == FirstKeywords(GetOr(content_data, "keywords", List(<<>>)))
        headings == GetOr(content_data, "headings", List(<<>>))
        word_count == NumberOf(GetOr(content_data, "word_count", Num(0)))
        title_analysis ==
            [length |-> Num(Len(title)),
             word_count |-> Num(Len(SplitWs(title))),
             optimal_length |-> Bool(TitleMin <= Len(title) /\ Len(title) <= TitleMax),
             has_keywords |-> Bool(AnyKeywordIn(keywords, title) = "true")]
        description_analysis ==
            [length |-> Num(Len(description)),
             word_count |-> Num(Len(SplitWs(description))),
             optimal_length |-> Bool(DescriptionMin <= Len(description)
                                     /\ Len(description) <= DescriptionMax),
             has_keywords |-> Bool(AnyKeywordIn(keywords, description) = "true")]
        content_analysis ==
            [has_meta_description |-> Bool(Len(description) > MetaDescriptionMin),
             has_headings |-> Bool(Truthy(headings)),
             has_images |-> Bool(Truthy(Get(content_data, "image_url"))),
             word_count_optimal |-> Bool(WordCountMin <= word_count
                                         /\ word_count <= WordCountMax)]
    IN [title_analysis |-> Dict(title_analysis),
        description_analysis |-> Dict(description_analysis),
        content_analysis |-> Dict(content_analysis),
        overall_seo_score |->
            _calculate_seo_score(title_analysis, description_analysis, content_analysis)]

\* _empty_analysis
_empty_analysis(error_message) ==
    [content_metrics |-> Dict(EmptyDict),
     keyword_analysis |-> Dict(EmptyDict),
     readability |-> Dict(EmptyDict),
     structure_analysis |-> Dict(EmptyDict),
     seo_analysis |-> Dict(EmptyDict),
     analysis_timestamp |-> Str(NowIso),
     error |-> Str(error_message)]

\* the exception the try block of analyze_content raises
AnalysisError(content_data) ==
    IF ~IsDict(content_data) THEN NoAttribute(content_data, "get")
    ELSE LET content == GetOr(content_data.d, "content", Str(""))
         IN IF ~Truthy(content) THEN NoError
            ELSE IF ~IsStr(content) THEN NoAttribute(content, "split")
            ELSE IF StructureError(content_data.d) # NoError
            THEN StructureError(content_data.d)
            ELSE SeoError(content_data.d)

\* the try block of analyze_content, when it does not raise; ai is the
\* result of _generate_ai_insights, NoValue when AI is not enabled
Analysis(content_data, ai) ==
    LET content == GetOr(content_data.d, "content", Str(""))
        title == GetOr(content_data.d, "title", Str(""))
        analysis ==
            [content_metrics |-> Dict(_analyze_content_metrics(content.s)),
             keyword_analysis |-> Dict(_extract_keywords(content.s, Format(title))),
             readability |-> Dict(_analyze_readability(content.s)),
             structure_analysis |-> Dict(_analyze_structure(content_data.d)),
             seo_analysis |-> Dict(_analyze_seo_factors(content_data.d)),
             analysis_timestamp |-> Str(NowIso)]
    IN IF ~Truthy(content) THEN _empty_analysis("No content to analyze")
       ELSE PutIf(ai # NoValue, analysis, "ai_insights", ai)

\* the faulty variant: the exception of the try block reaches the caller
AnalyzeWithoutHandler(content_data, ai) ==
    IF AnalysisError(content_data) # NoError
    THEN [raised |-> TRUE, analysis |-> NoValue]
    ELSE [raised |-> FALSE, analysis |-> Dict(Analysis(content_data, ai))]

\* analyze_content: raised tells whether an exception reaches the caller
analyze_content(content_data, ai) ==
    IF AnalysisError(content_data) # NoError
    THEN [raised |-> FALSE,
          analysis |-> Dict(_empty_analysis("Analysis error: " \o AnalysisError(content_data)))]
    ELSE [raised |-> FALSE, analysis |-> Dict(Analysis(content_data, ai))]

(***************************************************************************)
(* The analyzer under check: analyze_content and _analyze_readability are  *)
(* applied to content records whose content runs over all the strings of   *)
(* a small alphabet up to a length bound, and to records that combine a    *)
(* few longer texts and values that are no strings with other fields.      *)
(***************************************************************************)
MaxContentLen == 5
ContentAlphabet == {"a", "b", " ", "."}

\* the strings over the alphabet of length at most n
RECURSIVE StringsOf(_)
StringsOf(n) ==
    IF n = 0 THEN {""}
    ELSE StringsOf(n - 1) \cup {s \o c : s \in StringsOf(n - 1), c \in ContentAlphabet}

Texts ==
    {"The quick brown fox jumps. Over the lazy dog! Is it so?",
     "Great content here.\n\nGreat content there. More great content",
     "strength rhythm.", "Use the queue", "Hmm"}

\* the contents every rest of the record is combined with
Contents ==
    {Str(s) : s \in Texts \cup {"", "a.", "ababa"}}
        \cup {NoValue, Null, Num(5), List(<<Str("a")>>)}

AiFallback ==
    Dict([main_topics |-> List(<<Str("Content analysis"), Str("Blog optimization")>>),
          target_audience |-> Str("General audience"),
          sentiment |-> Str("neutral"),
          improvements |-> List(<<Str("Add more headings"), Str("Include more keywords"),
                                  Str("Optimize length")>>),
          keyword_suggestions |-> List(<<Str("blog"), Str("content"), Str("analysis"),
                                         Str("optimization"), Str("SEO")>>)])
AiFailed == Dict([error |-> Str("AI analysis failed: quota exceeded")])

Heading(level) == Dict([level |-> level, text |-> Str("Section")])
Link(is_internal) == Dict([url |-> Str("https://example.com/a"), is_internal |-> is_internal])

\* the rest of the content record together with the AI result
AnalyzerRests ==
    {[rest |-> EmptyDict, ai |-> NoValue],
     [rest |-> [title |-> Str("Great content for the reader today ok"),
                description |-> Str("great text"),
                keywords |-> List(<<Str("Great"), Str("hello")>>),
                headings |-> List(<<Heading(Num(1)), Heading(Num(2))>>),
                links |-> List(<<Link(Bool(TRUE)), Link(Bool(FALSE)), Dict(EmptyDict)>>),
                image_url |-> Str("https://example.com/i.png"),
                word_count |-> Num(300)],
      ai |-> AiFallback],
     [rest |-> [title |-> Str("Hello World"),
                headings |-> List(<<Heading(Num(1)), Heading(Num(3))>>)],
      ai |-> AiFailed],
     [rest |-> [headings |-> Num(5)], ai |-> NoValue],
     [rest |-> [headings |-> List(<<Heading(Str("2"))>>)], ai |-> NoValue],
     [rest |-> [links |-> List(<<Num(1)>>)], ai |-> AiFallback],
     [rest |-> [title |-> Num(7)], ai |-> NoValue],
     [rest |-> [title |-> Str("Hello World"), keywords |-> List(<<Str("zzz"), Num(4)>>)],
      ai |-> NoValue],
     [rest |-> [description |-> Str("short"), word_count |-> Str("12")], ai |-> NoValue]}

\* the heading lists of up to MaxHeadings headings of the levels h1..hMaxLevel
MaxHeadings == 3
MaxLevel == 4
LevelLists == UNION {[1..n -> 1..MaxLevel] : n \in 0..MaxHeadings}
HeadingLists == {List([i \in DOMAIN l |-> Heading(Num(l[i]))]) : l \in LevelLists}

AnalyzerInputs ==
    {[content_data |-> Dict(IF c = NoValue THEN r.rest ELSE Put(r.rest, "content", c)),
      ai |-> r.ai] : c \in Contents, r \in AnalyzerRests}
        \cup {[content_data |-> Dict([content |-> Str("Hmm"), headings |-> h]),
               ai |-> NoValue] : h \in HeadingLists}
        \cup {[content_data |-> Dict([content |-> Str(s)]), ai |-> NoValue] :
                s \in StringsOf(MaxContentLen)}
        \cup {[content_data |-> v, ai |-> NoValue] :
                v \in {Null, Num(42), Str("text"), List(<<Str("a")>>)}}

\* the results of the eight checks of the SEO analysis, in every combination
SeoChecks ==
    {[title_analysis |-> [optimal_length |-> Bool(b[1]), has_keywords |-> Bool(b[2])],
      description_analysis |-> [optimal_length |-> Bool(b[3]), has_keywords |-> Bool(b[4])],
      content_analysis |-> [has_meta_description |-> Bool(b[5]), has_headings |-> Bool(b[6]),
                            has_images |-> Bool(b[7]), word_count_optimal |-> Bool(b[8])]] :
        b \in [1..8 -> BOOLEAN]}

\* the words count_syllables is applied to: the non-empty strings of
\* vowels, consonants, capitals, digits and punctuation up to a length
MaxWordLen == 3
WordAlphabet == {"a", "e", "y", "b", "E", "1", "'"}

RECURSIVE WordsOf(_)
WordsOf(n) ==
    IF n = 0 THEN {""}
    ELSE WordsOf(n - 1) \cup {s \o c : s \in WordsOf(n - 1), c \in WordAlphabet}

SyllableWords == WordsOf(MaxWordLen) \ {""}

\* the contents and titles _extract_keywords is applied to: without words,
\* of stop words only, with repeated words, and of more distinct words and
\* phrases than are reported
KeywordContents ==
    {"", "the and", "Great content here. Great content there. More great content",
     "alpha bravo charlie delta echo foxtrot golf hotel india juliet kilo lima mike "
        \o "november oscar papa quebec romeo sierra tango uniform victor"}

KeywordTitles == {"", "Hello World", "The Great Content Guide"}

KeywordInputs == {[content |-> c, title |-> t] : c \in KeywordContents, t \in KeywordTitles}

InitAnalyzer ==
    /\ \/ pc = "analyzer_call" /\ args \in AnalyzerInputs
       \/ pc = "keywords_call" /\ args \in KeywordInputs
       \/ pc = "seo_score_call" /\ args \in SeoChecks
       \/ pc = "syllable_call" /\ args \in {[word |-> w] : w \in SyllableWords}
    /\ ret = NoValue
    /\ exc = FALSE
    /\ trail = <<>>

\* a call of ContentAnalyzer.analyze_content
AnalyzeContent ==
    /\ pc = "analyzer_call"
    /\ LET out == analyze_content(args.content_data, args.ai)
       IN /\ ret' = out.analysis
          /\ exc' = out.raised
    /\ pc' = "analyze_done"
    /\ UNCHANGED <<args, trail>>

\* a call of ContentAnalyzer._analyze_readability on a content string
AnalyzeReadability ==
    /\ pc = "analyzer_call"
    /\ IsDict(args.content_data)
    /\ IsStr(GetOr(args.content_data.d, "content", Null))
    /\ ret' = Dict(_analyze_readability(args.content_data.d.content.s))
    /\ exc' = FALSE
    /\ pc' = "readability_done"
    /\ UNCHANGED <<args, trail>>

\* a call of ContentAnalyzer._check_heading_hierarchy on a list of headings
CheckHeadingHierarchy ==
    /\ pc = "analyzer_call"
    /\ IsDict(args.content_data)
    /\ IsList(GetOr(args.content_data.d, "headings", Null))
    /\ FirstNonDict(args.content_data.d.headings.l) = NoError
    /\ LET r == _check_heading_hierarchy(args.content_data.d.headings.l)
       IN /\ ret' = IF r \in {"true", "false"} THEN Bool(r = "true") ELSE Null
          /\ exc' = (r \notin {"true", "false"})
    /\ pc' = "hierarchy_done"
    /\ UNCHANGED <<args, trail>>

\* a call of ContentAnalyzer._calculate_seo_score on the results of the checks
CalculateSeoScore ==
    /\ pc = "seo_score_call"
    /\ ret' = _calculate_seo_score(args.title_analysis, args.description_analysis,
                                   args.content_analysis)
    /\ exc' = FALSE
    /\ pc' = "seo_score_done"
    /\ UNCHANGED <<args, trail>>

\* a call of count_syllables of _analyze_readability on a word
CountSyllables ==
    /\ pc = "syllable_call"
    /\ ret' = Num(count_syllables(args.word))
    /\ exc' = FALSE
    /\ pc' = "syllable_done"
    /\ UNCHANGED <<args, trail>>

\* a call of ContentAnalyzer._analyze_content_metrics on a content string
AnalyzeContentMetrics ==
    /\ pc = "analyzer_call"
    /\ IsDict(args.content_data)
    /\ IsStr(GetOr(args.content_data.d, "content", Null))
    /\ ret' = Dict(_analyze_content_metrics(args.content_data.d.content.s))
    /\ exc' = FALSE
    /\ pc' = "metrics_done"
    /\ UNCHANGED <<args, trail>>

\* a call of ContentAnalyzer._extract_keywords on a content and a title
ExtractKeywords ==
    /\ pc = "keywords_call"
    /\ ret' = Dict(_extract_keywords(args.content, args.title))
    /\ exc' = FALSE
    /\ pc' = "keywords_done"
    /\ UNCHANGED <<args, trail>>

NextAnalyzer ==
    \/ AnalyzeContent
    \/ ExtractKeywords
    \/ AnalyzeContentMetrics
    \/ AnalyzeReadability
    \/ CheckHeadingHierarchy
    \/ CalculateSeoScore
    \/ CountSyllables

SpecAnalyzer == InitAnalyzer /\ [][NextAnalyzer]_vars

AnalysisSections ==
    {"content_metrics", "keyword_analysis", "readability", "structure_analysis", "seo_analysis"}

\* the all-empty analysis record with a non-empty error message
EmptyWithError(r) ==
    /\ IsDict(r)
    /\ \A k \in AnalysisSections : k \in DOMAIN r.d /\ r.d[k] = Dict(EmptyDict)
    /\ "error" \in DOMAIN r.d
    /\ IsStr(r.d.error)
    /\ r.d.error.s # ""

\* the content of the record is empty (absent, null, "" or another falsy value)
ContentEmpty(content_data) ==
    IsDict(content_data) /\ ~Truthy(GetOr(content_data.d, "content", Str("")))

\* C4: analyze_content never raises to its caller, and when the content is
\* empty or a sub-analysis raises, the record it returns has the five
\* analysis sections empty and a non-empty error message.
C4_AnalysisNeverRaises ==
    pc = "analyze_done" =>
        /\ ~exc
        /\ IsDict(ret)
        /\ (ContentEmpty(args.content_data) \/ AnalysisError(args.content_data) # NoError)
              => EmptyWithError(ret)

C4_Witness ==
    /\ pc = "analyze_done"
    /\ IsDict(args.content_data)
    /\ Get(args.content_data.d, "content") = Num(5)
    /\ EmptyWithError(ret)
    /\ ret.d.error = Str("Analysis error: 'int' object has no attribute 'split'")

\* a score within the closed interval [0, 100]
InUnitRange(v) ==
    \/ IsInt(v) /\ 0 <= v.n /\ v.n <= 100
    \/ v.t = "dec" /\ 0 <= v.h /\ v.h <= 10000

\* C9: the flesch_score returned by _analyze_readability lies in [0, 100]
\* for every content string.
C9_FleschScoreWithinRange ==
    pc = "readability_done" => InUnitRange(ret.d.flesch_score)

C9_Witness ==
    /\ pc = "readability_done"
    /\ args.content_data.d.content = Str("ababa")
    /\ ret.d.flesch_score = Num(0)
    /\ ret.d.total_syllables = Num(3)

\* the levels of the headings of the call, when every level is a number
HeadingLevels == LevelsOf(args.content_data.d.headings.l)

\* no heading after the first is more than one level below the heading
\* immediately before it
NoLevelSkipped(levels) ==
    \A i \in 2..Len(levels) : NumberOf(levels[i]) <= NumberOf(levels[i - 1]) + 1

\* C14: _check_heading_hierarchy returns true exactly when every heading
\* after the first has a level at most one greater than the level of the
\* heading immediately before it: the empty list yields true, [h1, h3]
\* yields false, and the level of the first heading, which has no previous
\* heading, does not by itself make the result false.
C14_HierarchyComparesWithPrevious ==
    (pc = "hierarchy_done" /\ ~exc) => ret = Bool(NoLevelSkipped(HeadingLevels))

\* the weights of the checks that pass
WeightsOf(title_analysis, description_analysis, content_analysis) ==
    <<IF title_analysis.optimal_length.b THEN 15 ELSE 0,
      IF title_analysis.has_keywords.b THEN 10 ELSE 0,
      IF description_analysis.optimal_length.b THEN 15 ELSE 0,
      IF description_analysis.has_keywords.b THEN 10 ELSE 0,
      IF content_analysis.has_meta_description.b THEN 10 ELSE 0,
      IF content_analysis.has_headings.b THEN 15 ELSE 0,
      IF content_analysis.has_images.b THEN 10 ELSE 0,
      IF content_analysis.word_count_optimal.b THEN 15 ELSE 0>>

\* the checks of the call of _calculate_seo_score that pass
PassedWeights ==
    WeightsOf(args.title_analysis, args.description_analysis, args.content_analysis)

\* the checks an SEO analysis reports as passed
ReportedWeights(seo) ==
    WeightsOf(seo.title_analysis.d, seo.description_analysis.d, seo.content_analysis.d)

RECURSIVE SumOf(_)
SumOf(seq) == IF seq = <<>> THEN 0 ELSE Head(seq) + SumOf(Tail(seq))

\* an analysis with an SEO section
SeoAnalyzed ==
    /\ pc = "analyze_done"
    /\ IsDict(ret)
    /\ "overall_seo_score" \in DOMAIN ret.d.seo_analysis.d

\* C15: for every combination of the eight checks overall_seo_score is the
\* sum of the weights of the checks that pass (title length 15, title
\* keywords 10, description length 15, description keywords 10, meta
\* description 10, headings 15, image 10, optimal word count 15); it lies
\* between 0 and 100, is 100 only when all eight pass and 0 only when none
\* passes.
C15_SeoScoreIsWeightedSum ==
    /\ pc = "seo_score_done" =>
          /\ ret = Dec(100 * SumOf(PassedWeights))
          /\ InUnitRange(ret)
          /\ ret.h = 10000 <=> (\A i \in 1..8 : PassedWeights[i] > 0)
          /\ ret.h = 0 <=> (\A i \in 1..8 : PassedWeights[i] = 0)
    /\ SeoAnalyzed =>
          ret.d.seo_analysis.d.overall_seo_score
            = Dec(100 * SumOf(ReportedWeights(ret.d.seo_analysis.d)))

C15_Witness ==
    /\ pc = "seo_score_done"
    /\ PassedWeights = <<15, 0, 15, 0, 10, 0, 10, 0>>
    /\ ret = Dec(5000)

\* the readability analysis has counted the syllables of a content
SyllablesCounted == pc = "readability_done" /\ "total_syllables" \in DOMAIN ret.d

\* C27: for every non-empty word, of letters, digits and punctuation in
\* any case, the syllable count is an integer of at least 1, the
\* subtraction for a final "e" never takes the count below 0 before it is
\* raised to 1, and the total of a content is at least its number of words.
C27_SyllablesAtLeastOne ==
    /\ pc = "syllable_done" =>
          /\ IsInt(ret) /\ ret.n >= 1
          /\ RawSyllables(Lower(args.word)) >= 0
    /\ SyllablesCounted =>
          ret.d.total_syllables.n >= Len(SplitWs(args.content_data.d.content.s))

\* a word whose only vowel is its final "e", in upper case, has been
\* counted: the count is 0 after the subtraction and 1 as returned
C27_Witness ==
    /\ pc = "syllable_done"
    /\ args.word = "bE"
    /\ RawSyllables(Lower(args.word)) = 0
    /\ ret = Num(1)

\* C28: the averages of _analyze_content_metrics are those of the counts
\* it reports: average_words_per_sentence is word_count / max(1,
\* sentence_count) and average_sentences_per_paragraph is sentence_count /
\* max(1, paragraph_count), rounded to two places, for the reported counts
\* of non-blank sentences and paragraphs.
C28_AveragesOfReportedCounts ==
    pc = "metrics_done" =>
        /\ ret.d.average_words_per_sentence =
              Dec(Round2(ret.d.word_count.n, Max2(1, ret.d.sentence_count.n)))
        /\ ret.d.average_sentences_per_paragraph =
              Dec(Round2(ret.d.sentence_count.n, Max2(1, ret.d.paragraph_count.n)))

\* the token sequence of a call of _extract_keywords: the alphabetic runs
\* of three letters or more of the title, the title and the content in
\* lower case
TokensOf(call) == FindWords(Lower(call.title \o " " \o call.title \o " " \o call.content))

\* a relevance score is the quotient freq / total
IsQuotient(score, freq, total) == score.n * total = freq * score.d

\* the keywords reported are at most 20, each with its frequency among the
\* tokens that are no stop words, over their number
KeywordsOfTokens(top_keywords, filtered) ==
    /\ Len(top_keywords) <= MaxKeywords
    /\ \A i \in DOMAIN top_keywords :
          /\ top_keywords[i].d.frequency = Num(Count(filtered, top_keywords[i].d.word.s))
          /\ top_keywords[i].d.frequency.n > 0
          /\ IsQuotient(top_keywords[i].d.relevance_score,
                        top_keywords[i].d.frequency.n, Len(filtered))

\* the phrases reported are at most 10, each a window of the phrases of
\* the tokens with its frequency among them, over their number; some
\* phrase is reported when the tokens have one
PhrasesOfTokens(top_phrases, phrases) ==
    /\ Len(top_phrases) <= MaxPhrases
    /\ phrases # <<>> => top_phrases # <<>>
    /\ \A i \in DOMAIN top_phrases :
          /\ top_phrases[i].d.phrase.s \in Range(phrases)
          /\ top_phrases[i].d.frequency = Num(Count(phrases, top_phrases[i].d.phrase.s))
          /\ IsQuotient(top_phrases[i].d.relevance_score,
                        top_phrases[i].d.frequency.n, Len(phrases))

\* C29: _extract_keywords computes keywords and phrases over the same
\* token sequence (title, title and content in lower case, alphabetic runs
\* of three letters or more): at most 20 keywords and 10 phrases, every
\* phrase a window of 2 or 3 consecutive tokens without a stop word, the
\* relevance of a keyword its frequency over the number of tokens that are
\* no stop words and that of a phrase its frequency over the number of
\* phrases.
C29_KeywordsAndPhrasesOfSameTokens ==
    pc = "keywords_done" =>
        /\ KeywordsOfTokens(ret.d.top_keywords.l, SelectSeq(TokensOf(args), NotStopWord))
        /\ PhrasesOfTokens(ret.d.top_phrases.l, PhrasesOf(TokensOf(args)))

-----------------------------------------------------------------------------
(* src/extractor.py, and the helpers of utils it calls.  A parsed document  *)
(* is the record of what its selectors match: per field the texts or        *)
(* attribute values of the matched elements, in the order of the selectors. *)

\* the positions of s kept by TextProcessor.clean_text: of a run of
\* whitespace, of "!" or of "?" the first, of a run of "." the first three
CleanKeeps(s, i) ==
    LET c == Chr(s, i)
        Before(k) == IF i > k THEN Chr(s, i - k) ELSE ""
    IN IF IsSpace(c) THEN ~IsSpace(Before(1))
       ELSE IF c \in {"!", "?"} THEN Before(1) # c
       ELSE IF c = "." THEN ~(Before(1) = "." /\ Before(2) = "." /\ Before(3) = ".")
       ELSE TRUE

\* TextProcessor.clean_text, for a string
CleanText(s) ==
    LET kept == Indices([i \in 1..Len(s) |-> CleanKeeps(s, i)])
    IN Strip(Concat([n \in DOMAIN kept |->
                        IF IsSpace(Chr(s, kept[n])) THEN " " ELSE Chr(s, kept[n])]))

\* utils.clean_text(text, max_length): the cleaned text clamped to
\* max_length characters, max_length = Null for no limit; it raises for a
\* text that is neither empty nor a string
CleanRaises(text) == Truthy(text) /\ ~IsStr(text)
clean_text(text, max_length) ==
    IF ~Truthy(text) THEN ""
    ELSE IF max_length = Null THEN CleanText(text.s)
    ELSE Take(CleanText(text.s), max_length.n)

\* utils.get_base_url(url): scheme and host of the URL; it raises for a
\* URL that urlparse rejects: a string with an unbalanced bracket in its
\* host, or a value such as a number that is no string
BaseUrlRaises(url) == IF IsStr(url) THEN UrlparseRaises(url.s) ELSE Truthy(url)
get_base_url(url) == urlparse(url.s).scheme \o "://" \o urlparse(url.s).netloc

\* utils.safe_url_join(base, url): "" for no URL, an absolute URL as it is,
\* a scheme-relative one with https, a relative one joined to the base
safe_url_join(base, url) ==
    IF url = "" THEN ""
    ELSE IF StartsWith(url, "http://") \/ StartsWith(url, "https://") THEN url
    ELSE IF StartsWith(url, "//") THEN "https:" \o url
    ELSE IF StartsWith(url, "/") THEN base \o url
    ELSE base \o "/" \o url

\* str.rstrip('/')
RECURSIVE RStripSlash(_)
RStripSlash(s) ==
    IF s # "" /\ Chr(s, Len(s)) = "/" THEN RStripSlash(SubSeq(s, 1, Len(s) - 1)) ELSE s

\* URLValidator.normalize_url: an empty URL as it is, else the URL with
\* https:// in front unless it starts with a protocol, and without the
\* slashes at its end
WithProtocol(url) ==
    IF StartsWith(url, "http://") \/ StartsWith(url, "https://") THEN url
    ELSE "https://" \o url

normalize_url(url) ==
    IF url = "" THEN url
    ELSE IF EndsWith(WithProtocol(url), "/") /\ Len(WithProtocol(url)) > 1
    THEN RStripSlash(WithProtocol(url))
    ELSE WithProtocol(url)

\* utils.get_multiple_text_from_elements and
\* utils.get_multiple_attributes_from_elements: the first non-empty of the
\* stripped texts (attribute values) of the elements the selectors match
FirstNonEmpty(values) ==
    LET I == {i \in DOMAIN values : Strip(values[i]) # ""}
    IN IF I = {} THEN "" ELSE Strip(values[MinOf(I)])

get_multiple_text_from_elements(texts) == FirstNonEmpty(texts)
get_multiple_attributes_from_elements(values) == FirstNonEmpty(values)

\* utils.validate_extracted_data: the record with the wordCount of its bodyText
validate_extracted_data(data) ==
    Put(data, "wordCount", Num(Len(SplitWs(GetOr(data, "bodyText", Str("")).s))))

HeadlineMax == 200
ExcerptMax == 300
NameMax == 100

\* extract_primary_data
extract_primary_data(doc) ==
    LET found == get_multiple_text_from_elements(doc.headlines)
        headline == IF found # "" THEN found
                    ELSE IF doc.title # NoValue THEN Strip(doc.title.s) ELSE ""
        meta == get_multiple_attributes_from_elements(doc.meta_descriptions)
        description == IF meta # "" THEN meta
                       ELSE get_multiple_text_from_elements(doc.excerpts)
    IN [headline |-> Str(clean_text(Str(headline), Num(HeadlineMax))),
        description |-> Str(clean_text(Str(description), Num(ExcerptMax))),
        datePublished |-> Str(get_multiple_attributes_from_elements(doc.published)),
        dateModified |-> Str(get_multiple_attributes_from_elements(doc.modified))]

\* json.loads(script.string) of the structured-data blocks of the model:
\* what is "type" (JSONDecodeError when "invalid", TypeError when the
\* script has no string), and the decoded value
JsonLoads(string) ==
    CASE string = Null -> [what |-> "type", value |-> Null]
      [] string = Str("{\"author\": {\"name\": \"Jane Doe\", \"url\": \"https://example.com/jane\"}}")
            -> [what |-> "ok",
                value |-> Dict([author |-> Dict([name |-> Str("Jane Doe"),
                                                 url |-> Str("https://example.com/jane")])])]
      [] string = Str("{\"author\": {\"name\": \"  Sam   Roe \"}}")
            -> [what |-> "ok", value |-> Dict([author |-> Dict([name |-> Str("  Sam   Roe ")])])]
      [] string = Str("{\"author\": {\"name\": 7}}")
            -> [what |-> "ok", value |-> Dict([author |-> Dict([name |-> Num(7)])])]
      [] string = Str("{\"author\": \"Jane Doe\"}")
            -> [what |-> "ok", value |-> Dict([author |-> Str("Jane Doe")])]
      [] string = Str("[1]") -> [what |-> "ok", value |-> List(<<Num(1)>>)]
      [] OTHER -> [what |-> "invalid", value |-> Null]

\* extract_author_data, the structured-data blocks: raised when
\* json.loads or clean_text raises an exception the loop does not catch
RECURSIVE ScriptAuthor(_)
ScriptAuthor(scripts) ==
    IF scripts = <<>> THEN [raised |-> FALSE, value |-> Null]
    ELSE LET loaded == JsonLoads(Head(scripts))
             data == loaded.value
             author == data.d.author
         IN IF loaded.what = "type" THEN [raised |-> TRUE, value |-> Null]
            ELSE IF loaded.what = "invalid" THEN ScriptAuthor(Tail(scripts))
            ELSE IF IsDict(data) /\ "author" \in DOMAIN data.d
                    /\ IsDict(author) /\ "name" \in DOMAIN author.d
            THEN IF CleanRaises(author.d.name) THEN [raised |-> TRUE, value |-> Null]
                 ELSE [raised |-> FALSE,
                       value |-> Dict([name |-> Str(clean_text(author.d.name, Num(NameMax))),
                                       url |-> GetOr(author.d, "url", Str(""))])]
            ELSE ScriptAuthor(Tail(scripts))

\* extract_author_data: the first author link with a name and a URL, else
\* the author of the structured data, else None
\* the author links that give a name and a URL
AuthorLinks(links, base_url) ==
    {i \in DOMAIN links : /\ Strip(links[i].name) # "" /\ links[i].href # ""
                          /\ clean_text(Str(Strip(links[i].name)), Num(NameMax)) # ""
                          /\ safe_url_join(base_url, links[i].href) # ""}

AuthorOfLink(link, base_url) ==
    Dict([name |-> Str(clean_text(Str(Strip(link.name)), Num(NameMax))),
          url |-> Str(safe_url_join(base_url, link.href))])

AuthorOf(doc, base_url, I) ==
    IF I # {}
    THEN [raised |-> FALSE, value |-> AuthorOfLink(doc.author_links[MinOf(I)], base_url)]
    ELSE ScriptAuthor(doc.json_ld)

extract_author_data(doc, base_url) ==
    AuthorOf(doc, base_url, AuthorLinks(doc.author_links, base_url))

\* extract_publisher_data
extract_publisher_data(doc, base_url) ==
    LET meta == get_multiple_attributes_from_elements(doc.site_names)
        text == get_multiple_text_from_elements(doc.site_titles)
        domain == Replace(urlparse(base_url).netloc, "www.", "")
        publisher_name ==
            IF meta # "" THEN meta
            ELSE IF text # "" THEN text
            ELSE IF UrlparseRaises(base_url) THEN "Unknown Publisher"
            ELSE Title(Split(domain, ".")[1])
        I == {i \in DOMAIN doc.logos : doc.logos[i] # ""}
        logo_url == IF I = {} THEN "" ELSE safe_url_join(base_url, doc.logos[MinOf(I)])
    IN [url |-> Str(base_url),
        name |-> Str(clean_text(Str(publisher_name), Num(NameMax))),
        logo |-> Dict([url |-> Str(logo_url)])]

\* extract_featured_image: None when no candidate yields a URL
extract_featured_image(doc, base_url) ==
    LET I == {i \in DOMAIN doc.images :
                doc.images[i] # "" /\ safe_url_join(base_url, doc.images[i]) # ""}
    IN IF I = {} THEN Null
       ELSE Dict([url |-> Str(safe_url_join(base_url, doc.images[MinOf(I)]))])

MinContentLength == 200
MinArticleLength == 100

\* extract_body_text
extract_body_text(doc) ==
    LET I == {i \in DOMAIN doc.contents : Len(doc.contents[i]) > MinContentLength}
        container == IF doc.contents = <<>> THEN ""
                     ELSE IF I # {} THEN doc.contents[MinOf(I)]
                     ELSE doc.contents[Len(doc.contents)]
        article == IF (container = "" \/ Len(container) < MinContentLength)
                        /\ doc.article # NoValue
                   THEN doc.article.s ELSE container
        body == IF (article = "" \/ Len(article) < MinArticleLength) /\ doc.body # NoValue
                THEN doc.body.s ELSE article
    IN clean_text(Str(body), Null)

CategoryLimit == 10
WordsPerReadingMinute == 200

\* the category links appended to the categories found so far, each once
RECURSIVE AddCategories(_, _)
AddCategories(categories, texts) ==
    IF texts = <<>> THEN categories
    ELSE LET category == Strip(Head(texts))
         IN AddCategories(IF category # "" /\ category \notin Range(categories)
                          THEN Append(categories, category) ELSE categories,
                          Tail(texts))

\* extract_additional_metadata
extract_additional_metadata(doc) ==
    LET fromMeta == IF doc.keywords_meta = NoValue THEN <<>>
                    ELSE StrippedNonBlank(Split(doc.keywords_meta.s, ","))
        categories == AddCategories(fromMeta, doc.category_links)
        word_count == Len(SplitWs(extract_body_text(doc)))
        reading_time == Max2(1, word_count \div WordsPerReadingMinute)
        language == IF Truthy(doc.lang) THEN D1("language", doc.lang) ELSE EmptyDict
        withCategories ==
            IF categories = <<>> THEN language
            ELSE Put(language, "categories",
                     List([i \in 1..Min2(CategoryLimit, Len(categories)) |-> Str(categories[i])]))
    IN Put(withCategories, "estimatedReadingTime",
           Str("PT" \o ToString(reading_time) \o "M"))

\* the record extract_all_data falls back to when the try block raises
MinimalData(base_url) ==
    [headline |-> Str(""),
     description |-> Str(""),
     bodyText |-> Str(""),
     publisher |-> Dict([name |-> Str("Unknown"), url |-> Str(base_url),
                         logo |-> Dict([url |-> Str("")])])]

\* extract_all_data: raised tells whether an exception reaches the caller.
\* The base URL is computed before the try block; of the field lookups of
\* the try block the author lookup can raise, after the primary data were
\* stored in the record.
\* the try block of extract_all_data after the primary data are stored;
\* author is the outcome of the author lookup
ExtractFields(doc, url, base_url, primary, author) ==
    LET withAuthor == PutTruthy(primary, "author", author.value)
        withPublisher == Put(withAuthor, "publisher",
                             Dict(extract_publisher_data(doc, base_url)))
        withImage == PutTruthy(withPublisher, "image", extract_featured_image(doc, base_url))
        withBody == Put(withImage, "bodyText", Str(extract_body_text(doc)))
        withMetadata == Update(withBody, extract_additional_metadata(doc))
        withBlog == Put(withMetadata, "isPartOf",
                        Dict([url |-> Str(safe_url_join(base_url, "/blog/"))]))
    IN IF author.raised
       THEN [raised |-> FALSE, data |-> Dict(Update(primary, MinimalData(base_url)))]
       ELSE [raised |-> FALSE, data |-> Dict(validate_extracted_data(withBlog))]

ExtractWithBase(doc, url, base_url) ==
    ExtractFields(doc, url, base_url,
                  Update(D1("url", url), extract_primary_data(doc)),
                  extract_author_data(doc, base_url))

extract_all_data(doc, url) ==
    IF BaseUrlRaises(url) THEN [raised |-> TRUE, data |-> NoValue]
    ELSE ExtractWithBase(doc, url, get_base_url(url))

(***************************************************************************)
(* The extractor under check: extract_all_data and extract_publisher_data  *)
(* are applied to documents combined from a few headline, author,          *)
(* publisher and body parts, and to URLs with and without a host.          *)
(***************************************************************************)
EmptyDoc ==
    [headlines |-> <<>>, title |-> NoValue, meta_descriptions |-> <<>>, excerpts |-> <<>>,
     published |-> <<>>, modified |-> <<>>, author_links |-> <<>>, json_ld |-> <<>>,
     site_names |-> <<>>, site_titles |-> <<>>, logos |-> <<>>, images |-> <<>>,
     contents |-> <<>>, article |-> NoValue, body |-> NoValue, lang |-> NoValue,
     keywords_meta |-> NoValue, category_links |-> <<>>]

MaxExtra == 1

\* n words
Words(n) == Concat([i \in 1..n |-> IF i = 1 THEN "word" ELSE " word"])

HeadParts ==
    {[headlines |-> <<>>, title |-> NoValue, meta_descriptions |-> <<>>,
      excerpts |-> <<>>, published |-> <<>>],
     [headlines |-> <<"", "  Hello   World!! ">>, title |-> Str("Page title"),
      meta_descriptions |-> <<"A summary of the post">>, excerpts |-> <<>>,
      published |-> <<"2024-01-15">>],
     [headlines |-> <<>>, title |-> Str(" Page title "), meta_descriptions |-> <<"">>,
      excerpts |-> <<"An excerpt">>, published |-> <<>>]}
        \cup {[headlines |-> <<Rep("x", HeadlineMax + k)>>, title |-> NoValue,
               meta_descriptions |-> <<Rep("d", ExcerptMax + k)>>, excerpts |-> <<>>,
               published |-> <<>>] : k \in 1..MaxExtra}

JaneJson == Str("{\"author\": {\"name\": \"Jane Doe\", \"url\": \"https://example.com/jane\"}}")

AuthorParts ==
    {[author_links |-> <<>>, json_ld |-> <<>>],
     [author_links |-> <<[name |-> "Jane Doe", href |-> ""],
                         [name |-> " Jane  Doe ", href |-> "/author/jane"]>>,
      json_ld |-> <<Null>>],
     [author_links |-> <<>>, json_ld |-> <<Null>>],
     [author_links |-> <<>>, json_ld |-> <<Str("not json"), JaneJson>>],
     [author_links |-> <<>>, json_ld |-> <<Str("{\"author\": \"Jane Doe\"}"), Null>>],
     [author_links |-> <<>>, json_ld |-> <<Str("{\"author\": {\"name\": 7}}")>>]}

PublisherParts ==
    {[site_names |-> <<>>, site_titles |-> <<>>, logos |-> <<>>, images |-> <<>>],
     [site_names |-> <<"", "Example  Site">>, site_titles |-> <<>>,
      logos |-> <<"", "/logo.png">>, images |-> <<"//cdn.example.org/i.png">>],
     [site_names |-> <<>>, site_titles |-> <<"Site Title">>, logos |-> <<>>,
      images |-> <<"", "i.png">>]}

BodyParts ==
    {[contents |-> <<>>, article |-> NoValue, body |-> NoValue,
      keywords_meta |-> NoValue, category_links |-> <<>>, lang |-> NoValue],
     [contents |-> <<"short text", Words(45)>>, article |-> Str(Words(7)),
      body |-> Str("Body text"), keywords_meta |-> Str("seo, content ,, seo"),
      category_links |-> <<"News", "seo", " Tech ">>, lang |-> Str("en")],
     [contents |-> <<"short text">>, article |-> Str(Words(7)),
      body |-> Str("Body  text\n here"), keywords_meta |-> Str("a,b,c,d,e,f,g,h,i,j,k,l"),
      category_links |-> <<>>, lang |-> Str("")],
     [contents |-> <<>>, article |-> NoValue, body |-> Str(Words(205)),
      keywords_meta |-> NoValue, category_links |-> <<"News">>, lang |-> NoValue]}

Docs ==
    {[EmptyDoc EXCEPT !.headlines = h.headlines, !.title = h.title,
                      !.meta_descriptions = h.meta_descriptions, !.excerpts = h.excerpts,
                      !.published = h.published,
                      !.author_links = a.author_links, !.json_ld = a.json_ld,
                      !.site_names = p.site_names, !.site_titles = p.site_titles,
                      !.logos = p.logos, !.images = p.images,
                      !.contents = b.contents, !.article = b.article, !.body = b.body,
                      !.keywords_meta = b.keywords_meta,
                      !.category_links = b.category_links, !.lang = b.lang] :
        h \in HeadParts, a \in AuthorParts, p \in PublisherParts, b \in BodyParts}

Urls ==
    {Str("https://www.example.com/blog/my-post"), Str("http://blog.example.org/a"),
     Str("https://"), Str("not a url"), Str("file:///tmp/page.html"), Str(""),
     Str("http://[bad/x"), Num(5)}

\* the documents and base URLs extract_author_data is applied to: the
\* author parts above, and structured data whose author has a name only
SamJson == Str("{\"author\": {\"name\": \"  Sam   Roe \"}}")

AuthorDocs ==
    {[EmptyDoc EXCEPT !.author_links = a.author_links, !.json_ld = a.json_ld] :
        a \in AuthorParts \cup
              {[author_links |-> <<>>, json_ld |-> <<SamJson>>],
               [author_links |-> <<[name |-> "Jane Doe", href |-> ""]>>,
                json_ld |-> <<Str("[1]"), SamJson, JaneJson>>],
               [author_links |-> <<[name |-> "  ", href |-> "/author/x"],
                                   [name |-> "Al", href |-> "//cdn.example.org/al"]>>,
                json_ld |-> <<SamJson>>]}}

BaseUrls == {"https://www.example.com", "http://blog.example.org", "://"}

\* the documents extract_body_text and extract_additional_metadata are
\* applied to: the body parts above, containers, article and body texts
\* around the two length thresholds, and keyword lists with repeats
ThresholdTexts(c) ==
    {Rep(c, n) : n \in {MinArticleLength - 1, MinArticleLength,
                        MinContentLength - 1, MinContentLength, MinContentLength + 1}}

ThresholdParts ==
    {[contents |-> c, article |-> a, body |-> Str("Body text"),
      keywords_meta |-> NoValue, category_links |-> <<>>, lang |-> NoValue] :
        c \in {<<>>} \cup {<<"short text", t>> : t \in ThresholdTexts("x")}
                     \cup {<<t, "short text">> : t \in ThresholdTexts("x")},
        a \in {NoValue, Str("")} \cup {Str(t) : t \in ThresholdTexts("y")}}

KeywordParts ==
    {[contents |-> <<>>, article |-> NoValue, body |-> NoValue,
      keywords_meta |-> k, category_links |-> l, lang |-> Str("en")] :
        k \in {NoValue, Str(""), Str("seo"), Str("seo, Tech, seo"),
               Str("a,b,c,d,e,f,g,h,i"), Str("a,b,c,d,e,f,g,h,i,j,k")},
        l \in {<<>>, <<"News">>, <<"Tech", "News", "Tech">>, <<" seo ", "", "z", "y">>}}

\* bodies of one and of two reading minutes
ReadingParts ==
    {[contents |-> <<Words(n)>>, article |-> NoValue, body |-> NoValue,
      keywords_meta |-> NoValue, category_links |-> <<>>, lang |-> NoValue] :
        n \in {2 * WordsPerReadingMinute - 1, 2 * WordsPerReadingMinute}}

BodyDocs ==
    {[EmptyDoc EXCEPT !.contents = b.contents, !.article = b.article, !.body = b.body,
                      !.keywords_meta = b.keywords_meta,
                      !.category_links = b.category_links, !.lang = b.lang] :
        b \in BodyParts \cup ThresholdParts \cup KeywordParts \cup ReadingParts}

\* the strings normalize_url is applied to: those of up to MaxUrlLen
\* letters, slashes and colons, bare and behind a protocol
MaxUrlLen == 3
UrlAlphabet == {"a", "/", ":"}

RECURSIVE UrlTails(_)
UrlTails(n) ==
    IF n = 0 THEN {""}
    ELSE UrlTails(n - 1) \cup {s \o c : s \in UrlTails(n - 1), c \in UrlAlphabet}

RawUrls == {p \o t : p \in {"", "http://", "https://"}, t \in UrlTails(MaxUrlLen)}

InitExtractor ==
    /\ \/ /\ pc = "extractor_call"
          /\ args \in {[soup |-> d, url |-> u] : d \in Docs, u \in Urls}
                        \cup {[soup |-> d, url |-> Str("https://www.example.com/blog/my-post")] :
                                d \in BodyDocs}
       \/ /\ pc = "author_call"
          /\ args \in {[soup |-> d, base_url |-> b] : d \in AuthorDocs, b \in BaseUrls}
       \/ /\ pc = "body_call"
          /\ args \in {[soup |-> d] : d \in BodyDocs}
       \/ /\ pc = "normalize_call"
          /\ args \in {[url |-> u] : u \in RawUrls}
    /\ ret = NoValue
    /\ exc = FALSE
    /\ trail = <<>>

\* a call of extract_all_data(soup, url)
ExtractAllData ==
    /\ pc = "extractor_call"
    /\ LET out == extract_all_data(args.soup, args.url)
       IN /\ ret' = out.data
          /\ exc' = out.raised
    /\ pc' = "extract_done"
    /\ UNCHANGED <<args, trail>>

\* a call of extract_publisher_data(soup, base_url) with the URL as the base URL
ExtractPublisherData ==
    /\ pc = "extractor_call"
    /\ IsStr(args.url)
    /\ ret' = Dict(extract_publisher_data(args.soup, args.url.s))
    /\ exc' = FALSE
    /\ pc' = "publisher_done"
    /\ UNCHANGED <<args, trail>>

\* a call of extract_author_data(soup, base_url)
ExtractAuthorData ==
    /\ pc = "author_call"
    /\ LET out == extract_author_data(args.soup, args.base_url)
       IN /\ ret' = out.value
          /\ exc' = out.raised
    /\ pc' = "author_done"
    /\ UNCHANGED <<args, trail>>

\* a call of extract_body_text(soup)
ExtractBodyText ==
    /\ pc = "body_call"
    /\ ret' = Str(extract_body_text(args.soup))
    /\ exc' = FALSE
    /\ pc' = "body_done"
    /\ UNCHANGED <<args, trail>>

\* a call of extract_additional_metadata(soup, base_url)
ExtractAdditionalMetadata ==
    /\ pc = "body_call"
    /\ ret' = Dict(extract_additional_metadata(args.soup))
    /\ exc' = FALSE
    /\ pc' = "metadata_done"
    /\ UNCHANGED <<args, trail>>

\* a call of URLValidator.normalize_url(url)
NormalizeUrl ==
    /\ pc = "normalize_call"
    /\ ret' = Str(normalize_url(args.url))
    /\ exc' = FALSE
    /\ pc' = "normalized"
    /\ UNCHANGED <<args, trail>>

\* a call of URLValidator.normalize_url on the result of the call before
NormalizeAgain ==
    /\ pc = "normalized"
    /\ ret' = Str(normalize_url(ret.s))
    /\ exc' = FALSE
    /\ pc' = "normalized_again"
    /\ UNCHANGED <<args, trail>>

NextExtractor ==
    \/ NormalizeUrl
    \/ NormalizeAgain
    \/ ExtractAllData
    \/ ExtractPublisherData
    \/ ExtractAuthorData
    \/ ExtractBodyText
    \/ ExtractAdditionalMetadata

SpecExtractor == InitExtractor /\ [][NextExtractor]_vars

\* extract_all_data has returned a record
Extracted == pc = "extract_done" /\ ~exc

\* C5: extract_all_data never raises to its caller, whatever the document
\* and the URL, a failure of the base-URL computation included; after a
\* failure of the extraction as a whole the record has an empty headline,
\* description and bodyText and the publisher name "Unknown".
C5_ExtractNeverRaises ==
    pc = "extract_done" =>
        /\ ~exc
        /\ (BaseUrlRaises(args.url)
              \/ extract_author_data(args.soup, get_base_url(args.url)).raised)
              => /\ ret.d.headline = Str("")
                 /\ ret.d.description = Str("")
                 /\ ret.d.bodyText = Str("")
                 /\ ret.d.publisher.d.name = Str("Unknown")

\* C6: a failure of one field's lookup leaves the other fields alone: the
\* headline, description, bodyText and publisher of the record are what
\* their own lookups extract.
C6_FieldFailureLeavesOthers ==
    Extracted =>
        /\ ret.d.headline = extract_primary_data(args.soup).headline
        /\ ret.d.description = extract_primary_data(args.soup).description
        /\ ret.d.bodyText = Str(extract_body_text(args.soup))
        /\ ret.d.publisher = Dict(extract_publisher_data(args.soup, get_base_url(args.url)))

\* C7: the record extract_all_data returns has a wordCount, the number of
\* whitespace-separated tokens of its bodyText.
C7_WordCountMatchesBodyText ==
    Extracted =>
        /\ "wordCount" \in DOMAIN ret.d
        /\ IsInt(ret.d.wordCount)
        /\ ret.d.wordCount.n = Len(SplitWs(ret.d.bodyText.s))

\* a publisher record with a name that is a non-empty string
NamedPublisher(publisher) ==
    /\ IsDict(publisher)
    /\ "name" \in DOMAIN publisher.d
    /\ IsStr(publisher.d.name)
    /\ publisher.d.name.s # ""

\* C8: the publisher record of extract_publisher_data, and the one in the
\* record of extract_all_data, is present and has a non-empty name for
\* every document and base URL.
C8_PublisherNameNeverEmpty ==
    /\ pc = "publisher_done" => NamedPublisher(ret)
    /\ Extracted => "publisher" \in DOMAIN ret.d /\ NamedPublisher(ret.d.publisher)

\* extract_author_data has returned
AuthorDone == pc = "author_done" /\ ~exc

\* C23: extract_author_data returns either no author or a record whose
\* name and url are both non-empty strings, on the author-link path and
\* on the structured-data path; never a name with an empty url.
C23_AuthorHasNameAndUrl ==
    AuthorDone =>
        \/ ret = Null
        \/ /\ IsDict(ret)
           /\ IsStr(Get(ret.d, "name")) /\ ret.d.name.s # ""
           /\ IsStr(Get(ret.d, "url")) /\ ret.d.url.s # ""

\* the entries of a sequence in the order of their first occurrence
RECURSIVE FirstSeen(_, _)
FirstSeen(seen, rest) ==
    IF rest = <<>> THEN seen
    ELSE FirstSeen(IF Head(rest) \in Range(seen) THEN seen ELSE Append(seen, Head(rest)),
                   Tail(rest))

\* the categories of a document as they are discovered: the entries of the
\* keywords meta tag, then the texts of the category and tag links
Discovered(doc) ==
    (IF doc.keywords_meta = NoValue THEN <<>>
     ELSE StrippedNonBlank(Split(doc.keywords_meta.s, ",")))
        \o StrippedNonBlank(doc.category_links)

\* the categories a metadata record reports, none as the empty list
CategoriesOf(metadata) ==
    IF "categories" \in DOMAIN metadata THEN metadata["categories"].l ELSE <<>>

\* C24: the categories of extract_additional_metadata are at most ten,
\* without duplicates (repeats inside the keywords meta tag and across the
\* meta tag and the tag links included), in the order of first discovery:
\* meta keywords first, then category and tag links.
C24_CategoriesDistinctInOrder ==
    pc = "metadata_done" =>
        /\ Len(CategoriesOf(ret.d)) <= CategoryLimit
        /\ \A i, j \in DOMAIN CategoriesOf(ret.d) :
              CategoriesOf(ret.d)[i] = CategoriesOf(ret.d)[j] => i = j
        /\ CategoriesOf(ret.d) =
              [i \in 1..Min2(CategoryLimit, Len(FirstSeen(<<>>, Discovered(args.soup)))) |->
                  Str(FirstSeen(<<>>, Discovered(args.soup))[i])]

\* the matched containers of a document whose text exceeds the threshold
LongContainers(doc) ==
    {i \in DOMAIN doc.contents : Len(doc.contents[i]) > MinContentLength}

\* the text of the article element is present and of 100 characters or more
LongArticle(doc) == doc.article # NoValue /\ Len(doc.article.s) >= MinArticleLength

\* C25: extract_body_text returns the text of the first matched container
\* that is longer than 200 characters; when no matched container is (one of
\* exactly 200 characters included) it returns the text of the article
\* element, and the text of the body when that text is shorter than 100
\* characters; the text of a container below the threshold is not returned
\* while an article or a body exists.
C25_BodyTextFromFirstLongContainer ==
    pc = "body_done" =>
        LET doc == args.soup
        IN /\ LongContainers(doc) # {} =>
                 ret = Str(clean_text(Str(doc.contents[MinOf(LongContainers(doc))]), Null))
           /\ (LongContainers(doc) = {} /\ LongArticle(doc)) =>
                 ret = Str(clean_text(doc.article, Null))
           /\ (LongContainers(doc) = {} /\ ~LongArticle(doc) /\ doc.body # NoValue) =>
                 ret = Str(clean_text(doc.body, Null))

\* the reading time of a text: "PT<n>M" for n = max(1, w // 200) of its
\* w whitespace-separated tokens
ReadingTimeOf(text) ==
    "PT" \o ToString(Max2(1, Len(SplitWs(text)) \div WordsPerReadingMinute)) \o "M"

\* C26: the record extract_all_data returns has an estimatedReadingTime,
\* the string "PT<n>M" for n = max(1, w // 200) of the w whitespace-separated
\* tokens of the record's own bodyText.
C26_ReadingTimeOfBodyText ==
    Extracted =>
        /\ "estimatedReadingTime" \in DOMAIN ret.d
        /\ ret.d.estimatedReadingTime = Str(ReadingTimeOf(ret.d.bodyText.s))

\* C30: normalize_url is idempotent, normalize_url(normalize_url(u)) =
\* normalize_url(u) for every string u, and every result that is not empty
\* starts with "http://" or "https://" and does not end with "/".
C30_NormalizeUrlIdempotent ==
    /\ pc = "normalized_again" => ret = Str(normalize_url(args.url))
    /\ (pc \in {"normalized", "normalized_again"} /\ ret.s # "") =>
          /\ StartsWith(ret.s, "http://") \/ StartsWith(ret.s, "https://")
          /\ ~EndsWith(ret.s, "/")


-----------------------------------------------------------------------------
(* src/app.py: the handler of the generate button.  A run is the sequence  *)
(* of its stages; trail records the stages that ran and the messages shown. *)

UrlSchemes == {"http", "https", "ftp"}

\* validators.url: a scheme, a host and no whitespace
ValidatorsUrl(url) ==
    /\ urlparse(url).scheme \in UrlSchemes
    /\ urlparse(url).netloc # ""
    /\ \A i \in 1..Len(url) : ~IsSpace(Chr(url, i))

\* URLValidator.is_valid_url: False when the validation raises
is_valid_url(url) == IF UrlparseRaises(url) THEN FALSE ELSE ValidatorsUrl(url)

\* the faulty variant: every URL that is not empty is processed
BranchWithoutValidation(url) == IF ~Truthy(url) THEN "warning" ELSE "process"

\* the branch the handler takes on the URL of the text input
GenerateBranch(url) ==
    IF ~Truthy(url) THEN "warning"
    ELSE IF ~is_valid_url(url.s) THEN "error"
    ELSE "process"

Stages == {"fetch", "extract", "analyze", "build"}

\* what the site answers to the fetch: a document, nothing (the fetch
\* returns None) or a network error (the fetch raises)
ArticlePage ==
    [EmptyDoc EXCEPT !.headlines = <<"Hello World">>,
                     !.meta_descriptions = <<"A summary of the post">>,
                     !.site_names = <<"Example Site">>,
                     !.contents = <<Words(45)>>,
                     !.json_ld = <<JaneJson>>]
TitleOnlyPage == [EmptyDoc EXCEPT !.title = Str("Hello")]
EmptyScriptPage == [ArticlePage EXCEPT !.json_ld = <<Null>>]

Pages == {Str("none"), Str("network error"),
          Dict(ArticlePage), Dict(TitleOnlyPage), Dict(EmptyScriptPage)}

AppUrls ==
    {"", "not a url", "example.com", "https://", "mailto:jane@example.com",
     "http://[bad/x", "https://exa mple.com/a",
     "https://www.example.com/blog/my-post", "http://blog.example.org/a",
     "https://example.com/", "ftp://files.example.org/x"}

InitApp ==
    /\ pc = "idle"
    /\ args \in {[url |-> Str(u), page |-> p] : u \in AppUrls, p \in Pages}
    /\ ret = NoValue
    /\ exc = FALSE
    /\ trail = <<>>

\* the button is pressed with an empty URL: a warning, nothing else
GenerateEmptyUrl ==
    /\ pc = "idle"
    /\ GenerateBranch(args.url) = "warning"
    /\ trail' = Append(trail, "warning")
    /\ pc' = "done"
    /\ UNCHANGED <<args, ret, exc>>

\* the button is pressed with a URL that is not valid: an error message
GenerateInvalidUrl ==
    /\ pc = "idle"
    /\ GenerateBranch(args.url) = "error"
    /\ trail' = Append(trail, "error")
    /\ pc' = "done"
    /\ UNCHANGED <<args, ret, exc>>

\* the button is pressed with a valid URL: the try block is entered
GenerateValidUrl ==
    /\ pc = "idle"
    /\ GenerateBranch(args.url) = "process"
    /\ pc' = "fetch"
    /\ UNCHANGED <<args, ret, exc, trail>>

\* the faulty variant: the handler goes on when the fetch returns nothing
FetchWithoutStop ==
    /\ pc = "fetch"
    /\ IF args.page = Str("network error")
       THEN /\ trail' = trail \o <<"fetch", "error">>
            /\ pc' = "failed"
            /\ UNCHANGED <<ret, exc>>
       ELSE /\ trail' = Append(trail, "fetch")
            /\ ret' = IF IsDict(args.page) THEN args.page ELSE Dict(EmptyDoc)
            /\ pc' = "extract"
            /\ UNCHANGED exc
    /\ UNCHANGED args

\* stage 1, utils.fetch_url_content: no document stops the script, an
\* exception is reported by the handler of the try block
FetchUrlContent ==
    /\ pc = "fetch"
    /\ IF args.page = Str("none")
       THEN /\ trail' = trail \o <<"fetch", "error">>
            /\ pc' = "stopped"
            /\ UNCHANGED <<ret, exc>>
       ELSE IF args.page = Str("network error")
       THEN /\ trail' = trail \o <<"fetch", "error">>
            /\ pc' = "failed"
            /\ UNCHANGED <<ret, exc>>
       ELSE /\ trail' = Append(trail, "fetch")
            /\ ret' = args.page
            /\ pc' = "extract"
            /\ UNCHANGED exc
    /\ UNCHANGED args

\* stage 1, extractor.extract_all_data(soup, url)
ExtractStage ==
    /\ pc = "extract"
    /\ LET out == extract_all_data(ret.d, args.url)
       IN IF out.raised
          THEN /\ trail' = trail \o <<"extract", "error">>
               /\ pc' = "failed"
               /\ UNCHANGED ret
          ELSE /\ trail' = Append(trail, "extract")
               /\ ret' = out.data
               /\ pc' = "analyze"
    /\ UNCHANGED <<args, exc>>

\* stage 2, analyzer.analyze_content(extracted_data), and the merge of
\* the extracted and the analyzed data
AnalyzeStage ==
    /\ pc = "analyze"
    /\ LET out == analyze_content(ret, NoValue)
       IN IF out.raised
          THEN /\ trail' = trail \o <<"analyze", "error">>
               /\ pc' = "failed"
               /\ UNCHANGED ret
          ELSE /\ trail' = Append(trail, "analyze")
               /\ ret' = Dict(Update(ret.d, out.analysis.d))
               /\ pc' = "build"
    /\ UNCHANGED <<args, exc>>

\* stages 3 and 4, schema_builder.build_schema(full_data)
BuildStage ==
    /\ pc = "build"
    /\ LET out == build_blogposting_schema(ret, Null, Null, <<>>)
       IN IF out.raised
          THEN /\ trail' = trail \o <<"build", "error">>
               /\ pc' = "failed"
               /\ UNCHANGED ret
          ELSE /\ trail' = trail \o <<"build", "success">>
               /\ ret' = out.schema
               /\ pc' = "done"
    /\ UNCHANGED <<args, exc>>

NextApp ==
    \/ GenerateEmptyUrl
    \/ GenerateInvalidUrl
    \/ GenerateValidUrl
    \/ FetchUrlContent
    \/ ExtractStage
    \/ AnalyzeStage
    \/ BuildStage

SpecApp == InitApp /\ [][NextApp]_vars

\* the URL of the text input is empty or fails the validity check
Rejected == ~Truthy(args.url) \/ ~is_valid_url(args.url.s)

\* C10: for a URL that is empty or fails the validity check no stage runs
\* (no fetch, extraction, analysis or schema building), and the action ends
\* with a warning for the empty URL and an error message for the invalid one.
C10_NoFetchForRejectedUrl ==
    Rejected =>
        /\ pc \in {"idle", "done"}
        /\ \A i \in DOMAIN trail : trail[i] \notin Stages
        /\ pc = "done" =>
              trail = IF Truthy(args.url) THEN <<"error">> ELSE <<"warning">>

C10_Witness ==
    /\ pc = "done"
    /\ args.url = Str("not a url")
    /\ trail = <<"error">>

\* the stages that ran, in the order in which they started
StageTrail == SelectSeq(trail, LAMBDA x : x \in Stages)

StageOrder == <<"fetch", "extract", "analyze", "build">>

\* the stage the handler is in follows the stages that have returned
StageOf(n) == IF n = 0 THEN {"idle", "fetch", "done"}
              ELSE IF n = Len(StageOrder) THEN {"done", "failed"}
              ELSE {StageOrder[n + 1], "failed", "stopped"}

\* C11: in one run of the generate action each stage runs at most once and
\* only in the order fetch, extract_all_data, analyze, build schema, a stage
\* starting only after the one before it has returned; when the fetch
\* returns no document, none of the later stages runs.
C11_StagesInOrder ==
    /\ Len(StageTrail) <= Len(StageOrder)
    /\ StageTrail = SubSeq(StageOrder, 1, Len(StageTrail))
    /\ pc \in StageOf(Len(StageTrail))
    /\ args.page = Str("none") =>
          /\ pc \notin {"extract", "analyze", "build"}
          /\ \A i \in DOMAIN StageTrail : StageTrail[i] = "fetch"

C11_Witness ==
    /\ pc = "done"
    /\ StageTrail = StageOrder
    /\ trail[Len(trail)] = "success"

\* the record the build stage receives: the extractor's record merged with
\* the analysis of that record
Merged == pc = "build"

\* C12: the analyzer consumes the extractor's record as produced: for every
\* record returned by extract_all_data whose bodyText is not empty,
\* analyze_content returns an analysis without an 'error' field whose
\* content_metrics.word_count is the number of whitespace tokens of bodyText.
C12_AnalyzerConsumesExtractorRecord ==
    (Merged /\ Truthy(Get(ret.d, "bodyText"))) =>
        /\ "error" \notin DOMAIN ret.d
        /\ Get(Get(ret.d, "content_metrics").d, "word_count")
             = Num(Len(SplitWs(Get(ret.d, "bodyText").s)))

\* the build stage returns a schema for a record with a headline
BuildsHeadline ==
    /\ pc = "build"
    /\ pc' = "done"
    /\ Truthy(Get(ret.d, "headline"))

\* C13: the Schema Builder consumes the extractor's record as produced: for
\* every record returned by extract_all_data whose headline is not empty,
\* build_blogposting_schema returns a schema whose 'headline' is the first
\* 110 characters of the record's headline.
C13_BuilderConsumesExtractorRecord ==
    [][BuildsHeadline =>
         Get(ret'.d, "headline")
           = Str(Take(Get(ret.d, "headline").s, HeadlineLimit))]_vars
=============================================================================
